---- MODULE Spec2Model ----
(***************************************************************************)
(* Model of the framework session runtime (SessionRuntime) of the          *)
(* gestures-apps repository: two-slot admission, connection registry,      *)
(* lifecycle waiting -> playing -> finished -> waiting, ready gate,        *)
(* play-again voting and reset, message routing and the tick loop.         *)
(*                                                                         *)
(* The runtime is single-threaded: every public operation and every timer  *)
(* callback runs to completion, so each is one action.  The code of an     *)
(* operation is a sequence of statements; it is modelled as a composition  *)
(* of operators on a record `st` holding the runtime's fields, so that the *)
(* order of the statements (state change, hook call, send) is kept.  What  *)
(* the operation does to the outside (conn.send, conn.close, hook calls)   *)
(* is appended to st.trace in the order the code does it; every entry      *)
(* records the phase and the timer handle at that moment.                  *)
(*                                                                         *)
(* App hooks are opaque application code: their results (onMessage's       *)
(* responses, onTick's messages, checkSessionEnd's result) are inputs.     *)
(* No hook of the repository calls back into the runtime, so endSession    *)
(* is an operation of its own, called by the app between other operations. *)
(* Date.now()/lastTickTime only feed the deltaTime argument of onTick and  *)
(* never the control flow; they are not part of the state.                 *)
(*                                                                         *)
(* The parser the runtime is constructed with is a configuration value:    *)
(* the hello-hands parseMessage, or a parser that validates against the    *)
(* app's message schema (parseClientMessage).                              *)
(*                                                                         *)
(* The InactivityMonitor and the closure of createAppServer are modelled   *)
(* the same way, as operators on records of their fields.  Time is a       *)
(* discrete clock `now`; the monitor's interval fires exactly when it is   *)
(* due, and a cleared interval never calls back.  A continuation chained   *)
(* on a resolved promise runs before any other event, so it is part of     *)
(* the action that chains it.                                              *)
(*                                                                         *)
(* Specifications: Spec (the runtime and its callers), SpecThrow (the      *)
(* connection operations with a join hook that may throw), SpecMonitor     *)
(* (the monitor alone), SpecServer (the server's listeners with runtime    *)
(* and monitor), SpecShutdown (the shutdown requests of a server).         *)
(***************************************************************************)
EXTENDS Integers, Sequences, FiniteSets, TLC

\* ---------------------------------------------------------------- bounds
\* number of socket objects that can be alive at the same time
MaxConns == 3
\* longest response list an onMessage hook returns
MaxResponses == 1
\* longest message list an onTick hook returns
MaxTickMsgs == 1

\* largest timeoutMs and checkIntervalMs an inactivity monitor is built with
MaxTimeoutMs == 3
MaxCheckIntervalMs == 2
\* the clock stops at this time
MaxNow == 8
\* largest connectionCount driven into the monitor
MaxCount == 2
\* the clock of the server stops at this time
MaxServerNow == 2
\* the WebSocket objects a client creates
MaxSockets == 3
\* the setTimeout calls a client makes
MaxTimers == 2
\* the largest maxReconnectAttempts a client is configured with
MaxReconnectAttempts == 2
\* the frames in flight from the server to a client
MaxInflight == 2
\* the connections a client makes to a runtime, one after the other
MaxClientConnects == 2
\* the other connections a runtime holds besides the client's
MaxPeers == 1

\* ------------------------------------------------------------- constants
\* WebSocket readyState OPEN
OPEN == 1
\* any readyState other than OPEN (CLOSING/CLOSED)
CLOSED == OPEN + 2

Conns == 1..MaxConns
NoConn == 0
NoNumber == 0
NoType == "undefined"
SessionPhases == {"waiting", "playing", "finished"}
MessageTargets == {"sender", "opponent", "all"}
ClientMessageTypes ==
  {"participant_ready", "player_ready", "bot_identify", "play_again_vote",
   "hand_update"}
SessionEndedReasons == {"completed", "participant_left"}

VARIABLES
  participants,   \* Map<ParticipantId, Participant>, entries in insertion order
  connections,    \* Map<Connection, ParticipantId>, entries in insertion order
  phase,          \* SessionPhase
  tickInterval,   \* TRUE iff this.tickInterval holds a live interval handle
  tickEnabled,    \* config.tickEnabled
  parser,         \* the parseMessage function the runtime was constructed with
  readyState,     \* readyState of every connection object
  tickDue,        \* a firing of the interval is queued in the event loop
  trace,          \* sends, closes and hook calls of the last operation, in order
  returned,       \* return value of the last operation (<<>> is null/void)
  lastOp,         \* the last operation, its arguments and hook results
  unhandled,      \* sockets whose 'connection' listener threw before ws.on(...)
  leftSinceStart, \* history: a participant left since the last session start
  startedTo,      \* history: the connections that were sent the session_started
                  \* of the round in play
  endedSent       \* history: session_ended was sent and no session_started since

\* the fields of the InactivityMonitor, the clock and the timer behind it
VARIABLES
  now,              \* Date.now()
  timeoutMs,        \* config.timeoutMs
  checkIntervalMs,  \* config.checkIntervalMs
  startTime,
  lastActivityTime,
  connectionCount,
  hasEverConnected,
  checkInterval,    \* TRUE iff this.checkInterval holds a live interval handle
  nextCheckAt,      \* the time at which the interval fires next
  shutdowns,        \* the calls of config.onShutdown so far: [reason, at]
  stopCalled        \* history: stop() was called from outside

monitorVars == <<now, timeoutMs, checkIntervalMs, startTime, lastActivityTime,
                 connectionCount, hasEverConnected, checkInterval, nextCheckAt,
                 shutdowns, stopCalled>>

\* the state of createAppServer's closure and of the process
VARIABLES
  ignoreMessageTypes, \* config.inactivity.ignoreMessageTypes
  isShuttingDown,
  shutdownSteps,      \* the steps of the graceful sequence executed so far
  closeCallbackRan,   \* the callback given to wss.close has run
  exitWaiting,        \* a then(() => process.exit(0)) waits for the close callback
  exited              \* process.exit was called

serverVars == <<ignoreMessageTypes, isShuttingDown, shutdownSteps,
                closeCallbackRan, exitWaiting, exited>>

\* the SessionClient, the WebSocket objects it has created and its timers
VARIABLES
  client,        \* the private fields of the SessionClient
  clientConfig,  \* the config the SessionClient was constructed with
  sockets,       \* readyState of every WebSocket created so far ("NONE": not yet)
  timers,        \* the setTimeout handles that are pending
  timersCreated, \* the number of setTimeout calls so far
  scheduledSinceOpen, \* history: reconnects scheduled since the last open event
  sinceDisconnect, \* history: disconnect() was called and connect() not since
  serverConn,    \* the server's connection object for the client's socket
  inflight,      \* frames the server has sent to the client, not yet delivered
  clientTrace,   \* sends, handler calls and timer calls of the last client operation
  clientOp       \* the last client operation

clientVars == <<client, clientConfig, sockets, timers, timersCreated,
                scheduledSinceOpen, sinceDisconnect, serverConn,
                inflight,
                clientTrace, clientOp>>

runtimeVars == <<participants, connections, phase, tickInterval, tickEnabled, parser,
                 readyState, tickDue, trace, returned, lastOp, unhandled,
                 leftSinceStart, startedTo, endedSent>>

vars == <<participants, connections, phase, tickInterval, tickEnabled, parser,
          readyState, tickDue, trace, returned, lastOp, unhandled,
          leftSinceStart, startedTo, endedSent, monitorVars, serverVars,
          clientVars>>

\* ----------------------------------------------------- JavaScript Map
\* A Map is a sequence of entries [key, value] in insertion order.
MapHas(m, k) == \E i \in 1..Len(m) : m[i].key = k

MapGet(m, k) == m[CHOOSE i \in 1..Len(m) : m[i].key = k].value

MapSet(m, k, v) ==
  IF MapHas(m, k)
  THEN [i \in 1..Len(m) |-> IF m[i].key = k THEN [key |-> k, value |-> v] ELSE m[i]]
  ELSE Append(m, [key |-> k, value |-> v])

MapDelete(m, k) == SelectSeq(m, LAMBDA e : e.key # k)

MapKeys(m) == [i \in 1..Len(m) |-> m[i].key]

MapValues(m) == [i \in 1..Len(m) |-> m[i].value]

\* ------------------------------------------------------------ app hooks
\* HelloHandsHooks.generateParticipantId: `hand-${participantNumber}`
generateParticipantId(participantNumber) ==
  CASE participantNumber = 1 -> "hand-1"
    [] participantNumber = 2 -> "hand-2"
    [] OTHER -> "hand-3"

\* parseMessage of the hello-hands app: JSON.parse, then the value must be
\* an object with a string `type`; anything else is null (<<>>).
\* A raw frame is [wellFormed, type]: whether it is JSON text of an object,
\* and the value of its type field (NoType when absent or not a string).
RawFrames ==
  {[wellFormed |-> FALSE, type |-> NoType], [wellFormed |-> TRUE, type |-> NoType]}
  \cup {[wellFormed |-> TRUE, type |-> t] : t \in ClientMessageTypes}

parseMessage(rawData) ==
  IF rawData.wellFormed /\ rawData.type # NoType
  THEN <<[type |-> rawData.type]>>
  ELSE <<>>

\* ClientMessageSchema: the discriminated union of the app's own message
\* types; the framework's types are not members.
AppMessageTypes == {"hand_update"}

\* parseClientMessage: safeParse against ClientMessageSchema, null on failure
parseClientMessage(rawData) ==
  IF rawData.wellFormed /\ rawData.type \in AppMessageTypes
  THEN <<[type |-> rawData.type]>>
  ELSE <<>>

\* the parsers an app can construct the runtime with
Parsers == {"parseMessage", "parseClientMessage"}

\* this.parseMessage: the constructor's fourth argument
this_parseMessage(rawData) ==
  IF parser = "parseClientMessage" THEN parseClientMessage(rawData)
  ELSE parseMessage(rawData)

\* ------------------------------------------------- the runtime's fields
Cur ==
  [participants |-> participants, connections |-> connections, phase |-> phase,
   tickInterval |-> tickInterval, tickEnabled |-> tickEnabled,
   readyState |-> readyState, trace |-> <<>>, returned |-> <<>>,
   leftSinceStart |-> leftSinceStart, startedTo |-> startedTo,
   endedSent |-> endedSent]

Event(st, kind, conn, msg) ==
  [kind |-> kind, conn |-> conn, msg |-> msg, phase |-> st.phase,
   armed |-> st.tickInterval, ended |-> st.endedSent,
   started |-> conn \in st.startedTo]

\* conn.send(data): the message is on the wire
connSend(st, conn, msg) ==
  [st EXCEPT !.trace = Append(@, Event(st, "send", conn, msg)),
             !.endedSent = IF msg.type = "session_ended" THEN TRUE
                           ELSE IF msg.type = "session_started" THEN FALSE
                           ELSE @,
             !.startedTo = IF msg.type = "session_started" THEN @ \cup {conn}
                           ELSE IF msg.type = "session_ended" THEN {}
                           ELSE @]

\* mutant of connClose: the rejected connection is left open
connClose_skipped(st, conn) == st

\* conn.close()
connClose(st, conn) ==
  [st EXCEPT !.trace = Append(@, Event(st, "close", conn, [type |-> "close"])),
             !.readyState[conn] = CLOSED]

\* a call of this.hooks.<name>
hookCall(st, name) ==
  [st EXCEPT !.trace = Append(@, Event(st, "hook", NoConn, [type |-> name]))]

\* ------------------------------------------------------ message routing
sendTo(st, conn, message) ==
  IF st.readyState[conn] = OPEN THEN connSend(st, conn, message) ELSE st

RECURSIVE sendEach(_, _, _)
sendEach(st, conns, message) ==
  IF conns = <<>> THEN st
  ELSE sendEach(sendTo(st, Head(conns), message), Tail(conns), message)

broadcastToAll(st, message) ==
  sendEach(st, MapKeys(st.connections), message)

\* mutant of broadcastToOthers: the sender is not excluded
broadcastToOthers_withSender(st, senderConn, message) ==
  sendEach(st, MapKeys(st.connections), message)

broadcastToOthers(st, senderConn, message) ==
  sendEach(st, SelectSeq(MapKeys(st.connections), LAMBDA c : c # senderConn), message)

RECURSIVE sendResponses(_, _, _)
sendResponses(st, senderConn, responses) ==
  IF responses = <<>> THEN st
  ELSE LET response == Head(responses)
           s1 == CASE response.target = "sender" -> sendTo(st, senderConn, response.message)
                   [] response.target = "opponent" -> broadcastToOthers(st, senderConn, response.message)
                   [] response.target = "all" -> broadcastToAll(st, response.message)
                   [] OTHER -> st
       IN sendResponses(s1, senderConn, Tail(responses))

\* --------------------------------------------------------------- queries
\* mutant of getNextParticipantNumber: a third number instead of null
getNextParticipantNumber_third(st) ==
  LET numbers == {MapValues(st.participants)[i].number : i \in 1..Len(st.participants)}
  IN IF 1 \notin numbers THEN 1
     ELSE IF 2 \notin numbers THEN 2
     ELSE 3

\* mutant of getNextParticipantNumber: the number is the count plus one
getNextParticipantNumber_bySize(st) ==
  IF Len(st.participants) < 2 THEN Len(st.participants) + 1 ELSE NoNumber

getNextParticipantNumber(st) ==
  LET numbers == {MapValues(st.participants)[i].number : i \in 1..Len(st.participants)}
  IN IF 1 \notin numbers THEN 1
     ELSE IF 2 \notin numbers THEN 2
     ELSE NoNumber

\* mutant of areAllParticipantsReady: the size check is missing
areAllParticipantsReady_anySize(st) ==
  \A i \in 1..Len(st.participants) : st.participants[i].value.isReady

\* mutant of areAllParticipantsReady: some() instead of every()
areAllParticipantsReady_some(st) ==
  IF Len(st.participants) < 2 THEN FALSE
  ELSE \E i \in 1..Len(st.participants) : st.participants[i].value.isReady

areAllParticipantsReady(st) ==
  IF Len(st.participants) < 2 THEN FALSE
  ELSE \A i \in 1..Len(st.participants) : st.participants[i].value.isReady

getPlayAgainVoters(st) ==
  LET voters == SelectSeq(MapValues(st.participants), LAMBDA p : p.wantsPlayAgain)
  IN [i \in 1..Len(voters) |-> voters[i].id]

\* mutant of allParticipantsWantPlayAgain: the size check of
\* areAllParticipantsReady (fewer than 2 is never enough)
allParticipantsWantPlayAgain_needsTwo(st) ==
  IF Len(st.participants) < 2 THEN FALSE
  ELSE \A i \in 1..Len(st.participants) : st.participants[i].value.wantsPlayAgain

allParticipantsWantPlayAgain(st) ==
  IF Len(st.participants) = 0 THEN FALSE
  ELSE \A i \in 1..Len(st.participants) : st.participants[i].value.wantsPlayAgain

\* ------------------------------------------------------------- tick loop
\* setInterval: a live handle is stored in this.tickInterval
startTickLoop(st) == [st EXCEPT !.tickInterval = TRUE]

\* clearInterval and null, only when a handle is stored
stopTickLoop(st) ==
  IF st.tickInterval THEN [st EXCEPT !.tickInterval = FALSE] ELSE st

stop(st) == stopTickLoop(st)

\* ------------------------------------------------------------- lifecycle
\* mutant of checkAndStartSession: the phase guard is missing
checkAndStartSession_anyPhase(st) ==
  IF ~areAllParticipantsReady(st) THEN st
  ELSE LET s1 == [st EXCEPT !.phase = "playing", !.leftSinceStart = FALSE]
           s2 == hookCall(s1, "onSessionStart")
           s3 == broadcastToAll(s2, [type |-> "session_started"])
       IN IF s3.tickEnabled THEN startTickLoop(s3) ELSE s3

\* mutant of checkAndStartSession: the tick loop is started before the
\* session_started broadcast
checkAndStartSession_loopFirst(st) ==
  IF st.phase # "waiting" THEN st
  ELSE IF ~areAllParticipantsReady(st) THEN st
  ELSE LET s1 == [st EXCEPT !.phase = "playing", !.leftSinceStart = FALSE]
           s2 == hookCall(s1, "onSessionStart")
           s3 == IF s2.tickEnabled THEN startTickLoop(s2) ELSE s2
       IN broadcastToAll(s3, [type |-> "session_started"])

checkAndStartSession(st) ==
  IF st.phase # "waiting" THEN st
  ELSE IF ~areAllParticipantsReady(st) THEN st
  ELSE LET s1 == [st EXCEPT !.phase = "playing", !.leftSinceStart = FALSE]
           s2 == hookCall(s1, "onSessionStart")
           s3 == broadcastToAll(s2, [type |-> "session_started"])
       IN IF s3.tickEnabled THEN startTickLoop(s3) ELSE s3

\* mutant of endSession: the phase is not set to finished
endSession_keepPhase(st, winnerId, winnerNumber, reason) ==
  IF st.phase # "playing" THEN st
  ELSE LET s2 == stopTickLoop(st)
       IN broadcastToAll(s2, [type |-> "session_ended", winnerId |-> winnerId,
                              winnerNumber |-> winnerNumber, reason |-> reason])

\* mutant of endSession: the reason argument is not passed on
endSession_fixedReason(st, winnerId, winnerNumber, reason) ==
  IF st.phase # "playing" THEN st
  ELSE LET s1 == [st EXCEPT !.phase = "finished"]
           s2 == stopTickLoop(s1)
       IN broadcastToAll(s2, [type |-> "session_ended", winnerId |-> winnerId,
                              winnerNumber |-> winnerNumber, reason |-> "completed"])

\* mutant of endSession: the phase guard is missing
endSession_unguarded(st, winnerId, winnerNumber, reason) ==
  LET s1 == [st EXCEPT !.phase = "finished"]
      s2 == stopTickLoop(s1)
  IN broadcastToAll(s2, [type |-> "session_ended", winnerId |-> winnerId,
                         winnerNumber |-> winnerNumber, reason |-> reason])

\* mutant of endSession: session_ended is broadcast before the loop is stopped
endSession_sendFirst(st, winnerId, winnerNumber, reason) ==
  IF st.phase # "playing" THEN st
  ELSE LET s1 == [st EXCEPT !.phase = "finished"]
           s2 == broadcastToAll(s1, [type |-> "session_ended", winnerId |-> winnerId,
                                     winnerNumber |-> winnerNumber, reason |-> reason])
       IN stopTickLoop(s2)

endSession(st, winnerId, winnerNumber, reason) ==
  IF st.phase # "playing" THEN st
  ELSE LET s1 == [st EXCEPT !.phase = "finished"]
           s2 == stopTickLoop(s1)
       IN broadcastToAll(s2, [type |-> "session_ended", winnerId |-> winnerId,
                              winnerNumber |-> winnerNumber, reason |-> reason])

\* mutant of resetSession: wantsPlayAgain is not cleared
resetSession_keepVotes(st) ==
  LET s1 == hookCall(st, "onReset")
      s2 == [s1 EXCEPT !.participants =
               [i \in 1..Len(s1.participants) |->
                  LET id == s1.participants[i].key
                      p == s1.participants[i].value
                  IN [key |-> id, value |-> [p EXCEPT !.isReady = p.isBot]]]]
      s3 == [s2 EXCEPT !.phase = "waiting"]
  IN broadcastToAll(s3, [type |-> "session_reset", appData |-> "resetData"])

\* mutant of resetSession: session_reset is broadcast before the phase is set
resetSession_broadcastFirst(st) ==
  LET s1 == hookCall(st, "onReset")
      s2 == [s1 EXCEPT !.participants =
               [i \in 1..Len(s1.participants) |->
                  LET id == s1.participants[i].key
                      p == s1.participants[i].value
                  IN [key |-> id,
                      value |-> [p EXCEPT !.isReady = p.isBot,
                                          !.wantsPlayAgain = FALSE]]]]
      s3 == broadcastToAll(s2, [type |-> "session_reset", appData |-> "resetData"])
  IN [s3 EXCEPT !.phase = "waiting"]

resetSession(st) ==
  LET s1 == hookCall(st, "onReset")
      s2 == [s1 EXCEPT !.participants =
               [i \in 1..Len(s1.participants) |->
                  LET id == s1.participants[i].key
                      p == s1.participants[i].value
                  IN [key |-> id,
                      value |-> [p EXCEPT !.isReady = p.isBot,
                                          !.wantsPlayAgain = FALSE]]]]
      s3 == [s2 EXCEPT !.phase = "waiting"]
  IN broadcastToAll(s3, [type |-> "session_reset", appData |-> "resetData"])

\* ------------------------------------------- framework message handlers
handleParticipantReady(st, participantId) ==
  IF ~MapHas(st.participants, participantId) THEN st
  ELSE LET participant == MapGet(st.participants, participantId)
           s1 == [st EXCEPT !.participants =
                    MapSet(@, participantId, [participant EXCEPT !.isReady = TRUE])]
       IN checkAndStartSession(s1)

\* mutant of handleBotIdentify: the participant is marked as a bot but not
\* as ready
handleBotIdentify_notReady(st, participantId) ==
  IF ~MapHas(st.participants, participantId) THEN st
  ELSE LET participant == MapGet(st.participants, participantId)
           s1 == [st EXCEPT !.participants =
                    MapSet(@, participantId, [participant EXCEPT !.isBot = TRUE])]
       IN checkAndStartSession(s1)

handleBotIdentify(st, participantId) ==
  IF ~MapHas(st.participants, participantId) THEN st
  ELSE LET participant == MapGet(st.participants, participantId)
           s1 == [st EXCEPT !.participants =
                    MapSet(@, participantId,
                           [participant EXCEPT !.isBot = TRUE, !.isReady = TRUE])]
       IN checkAndStartSession(s1)

\* mutant of handlePlayAgainVote: the voters are read before the vote is
\* recorded
handlePlayAgainVote_staleVoters(st, participantId) ==
  IF st.phase # "finished" THEN st
  ELSE IF ~MapHas(st.participants, participantId) THEN st
  ELSE LET participant == MapGet(st.participants, participantId)
           votedIds == getPlayAgainVoters(st)
           s1 == [st EXCEPT !.participants =
                    MapSet(@, participantId, [participant EXCEPT !.wantsPlayAgain = TRUE])]
           s2 == broadcastToAll(s1, [type |-> "play_again_status",
                                     votedParticipantIds |-> votedIds,
                                     totalParticipants |-> Len(s1.participants)])
       IN IF allParticipantsWantPlayAgain(s2) THEN resetSession(s2) ELSE s2

\* mutant of handlePlayAgainVote: a vote toggles the flag
handlePlayAgainVote_toggle(st, participantId) ==
  IF st.phase # "finished" THEN st
  ELSE IF ~MapHas(st.participants, participantId) THEN st
  ELSE LET participant == MapGet(st.participants, participantId)
           s1 == [st EXCEPT !.participants =
                    MapSet(@, participantId,
                           [participant EXCEPT !.wantsPlayAgain = ~participant.wantsPlayAgain])]
           votedIds == getPlayAgainVoters(s1)
           s2 == broadcastToAll(s1, [type |-> "play_again_status",
                                     votedParticipantIds |-> votedIds,
                                     totalParticipants |-> Len(s1.participants)])
       IN IF allParticipantsWantPlayAgain(s2) THEN resetSession(s2) ELSE s2

handlePlayAgainVote(st, participantId) ==
  IF st.phase # "finished" THEN st
  ELSE IF ~MapHas(st.participants, participantId) THEN st
  ELSE LET participant == MapGet(st.participants, participantId)
           s1 == [st EXCEPT !.participants =
                    MapSet(@, participantId, [participant EXCEPT !.wantsPlayAgain = TRUE])]
           votedIds == getPlayAgainVoters(s1)
           s2 == broadcastToAll(s1, [type |-> "play_again_status",
                                     votedParticipantIds |-> votedIds,
                                     totalParticipants |-> Len(s1.participants)])
       IN IF allParticipantsWantPlayAgain(s2) THEN resetSession(s2) ELSE s2

\* the message types the switch of handleFrameworkMessage has a case for
isFrameworkMessage(message) ==
  message.type \in {"participant_ready", "player_ready", "bot_identify", "play_again_vote"}

handleFrameworkMessage(st, participantId, message) ==
  CASE message.type \in {"participant_ready", "player_ready"} ->
         handleParticipantReady(st, participantId)
    [] message.type = "bot_identify" -> handleBotIdentify(st, participantId)
    [] message.type = "play_again_vote" -> handlePlayAgainVote(st, participantId)
    [] OTHER -> st

\* ------------------------------------------------- connection management
handleConnection(st, conn) ==
  LET participantNumber == getNextParticipantNumber(st)
  IN IF participantNumber = NoNumber
     THEN LET s1 == sendTo(st, conn, [type |-> "error",
                      message |-> "Session is full. Only 2 participants allowed."])
              s2 == connClose(s1, conn)
          IN [s2 EXCEPT !.returned = <<>>]
     ELSE LET participantId == generateParticipantId(participantNumber)
              participant == [id |-> participantId, number |-> participantNumber,
                              isReady |-> FALSE, isBot |-> FALSE,
                              wantsPlayAgain |-> FALSE]
              s1 == [st EXCEPT !.participants = MapSet(@, participantId, participant)]
              s2 == [s1 EXCEPT !.connections = MapSet(@, conn, participantId)]
              s3 == hookCall(s2, "onParticipantJoin")
              s4 == sendTo(s3, conn, [type |-> "welcome",
                                      participantId |-> participantId,
                                      participantNumber |-> participantNumber,
                                      sessionPhase |-> s3.phase,
                                      appData |-> "welcomeData"])
              s5 == broadcastToOthers(s4, conn, [type |-> "opponent_joined"])
          IN [s5 EXCEPT !.returned = <<participant>>]

\* handleConnection when hooks.onParticipantJoin throws: the statements up
\* to the hook call have run, the exception leaves the method
handleConnectionJoinThrows(st, conn) ==
  LET participantNumber == getNextParticipantNumber(st)
  IN IF participantNumber = NoNumber THEN handleConnection(st, conn)
     ELSE LET participantId == generateParticipantId(participantNumber)
              participant == [id |-> participantId, number |-> participantNumber,
                              isReady |-> FALSE, isBot |-> FALSE,
                              wantsPlayAgain |-> FALSE]
              s1 == [st EXCEPT !.participants = MapSet(@, participantId, participant)]
              s2 == [s1 EXCEPT !.connections = MapSet(@, conn, participantId)]
          IN hookCall(s2, "onParticipantJoin")

\* mutant of handleDisconnection: the binding is not removed
handleDisconnection_keepBinding(st, conn) ==
  IF ~MapHas(st.connections, conn) THEN st
  ELSE LET participantId == MapGet(st.connections, conn)
           s1 == hookCall(st, "onParticipantLeave")
           s2 == [s1 EXCEPT !.participants = MapDelete(@, participantId),
                            !.leftSinceStart = TRUE]
       IN broadcastToOthers(s2, conn, [type |-> "opponent_left"])

\* mutant of handleDisconnection: a departure during play ends the session
handleDisconnection_autoEnd(st, conn) ==
  IF ~MapHas(st.connections, conn) THEN st
  ELSE LET participantId == MapGet(st.connections, conn)
           s1 == hookCall(st, "onParticipantLeave")
           s2 == [s1 EXCEPT !.participants = MapDelete(@, participantId),
                            !.leftSinceStart = TRUE]
           s3 == [s2 EXCEPT !.connections = MapDelete(@, conn)]
           s4 == broadcastToOthers(s3, conn, [type |-> "opponent_left"])
       IN IF s4.phase = "playing" THEN [s4 EXCEPT !.phase = "finished"] ELSE s4

handleDisconnection(st, conn) ==
  IF ~MapHas(st.connections, conn) THEN st
  ELSE LET participantId == MapGet(st.connections, conn)
           s1 == hookCall(st, "onParticipantLeave")
           s2 == [s1 EXCEPT !.participants = MapDelete(@, participantId),
                            !.leftSinceStart = TRUE]
           s3 == [s2 EXCEPT !.connections = MapDelete(@, conn)]
       IN broadcastToOthers(s3, conn, [type |-> "opponent_left"])

\* mutant of handleMessage: an unparsable message closes the connection
handleMessage_closesInvalid(st, conn, rawData, responses) ==
  IF ~MapHas(st.connections, conn) THEN st
  ELSE LET participantId == MapGet(st.connections, conn)
           parsed == this_parseMessage(rawData)
       IN IF parsed = <<>>
          THEN connClose(sendTo(st, conn, [type |-> "error", message |-> "Invalid message format"]),
                         conn)
          ELSE LET message == parsed[1]
               IN IF isFrameworkMessage(message)
                  THEN handleFrameworkMessage(st, participantId, message)
                  ELSE sendResponses(hookCall(st, "onMessage"), conn, responses)

\* responses: what the app's onMessage returns for this message
handleMessage(st, conn, rawData, responses) ==
  IF ~MapHas(st.connections, conn) THEN st
  ELSE LET participantId == MapGet(st.connections, conn)
           parsed == this_parseMessage(rawData)
       IN IF parsed = <<>>
          THEN sendTo(st, conn, [type |-> "error", message |-> "Invalid message format"])
          ELSE LET message == parsed[1]
               IN IF isFrameworkMessage(message)
                  THEN handleFrameworkMessage(st, participantId, message)
                  ELSE sendResponses(hookCall(st, "onMessage"), conn, responses)

\* mutant of tickCallback: the phase guard is missing
tickCallback_unguarded(st, messages, endResult) ==
  LET s1 == hookCall(st, "onTick")
      s2 == sendResponses(s1, NoConn,
              [i \in 1..Len(messages) |-> [target |-> "all", message |-> messages[i]]])
      s3 == hookCall(s2, "checkSessionEnd")
  IN IF endResult # <<>>
     THEN endSession(s3, endResult[1].winnerId, endResult[1].winnerNumber,
                     "app_condition")
     ELSE s3

\* the setInterval callback; messages: what onTick returns, endResult: what
\* checkSessionEnd returns (<<>> is null)
tickCallback(st, messages, endResult) ==
  IF st.phase # "playing" THEN st
  ELSE LET s1 == hookCall(st, "onTick")
           s2 == sendResponses(s1, NoConn,
                   [i \in 1..Len(messages) |-> [target |-> "all", message |-> messages[i]]])
           s3 == hookCall(s2, "checkSessionEnd")
       IN IF endResult # <<>>
          THEN endSession(s3, endResult[1].winnerId, endResult[1].winnerNumber,
                          "app_condition")
          ELSE s3

\* ----------------------------------------------------------- hook results
\* the connection bound to participantId, <<>> when there is none
getConnection(st, participantId) ==
  LET conns == SelectSeq(MapKeys(st.connections),
                         LAMBDA c : MapGet(st.connections, c) = participantId)
  IN IF conns = <<>> THEN <<>> ELSE <<Head(conns)>>

sendToParticipant(st, participantId, message) ==
  LET conn == getConnection(st, participantId)
  IN IF conn # <<>> THEN sendTo(st, conn[1], message) ELSE st

broadcast(st, message) == broadcastToAll(st, message)

\* the messages the app sends on its own initiative
AppMessages == {[type |-> "hand_broadcast"]}

RECURSIVE SeqsUpTo(_, _)
SeqsUpTo(S, n) ==
  IF n = 0 THEN {<<>>}
  ELSE LET shorter == SeqsUpTo(S, n - 1)
       IN shorter \cup {Append(s, x) : s \in shorter, x \in S}

AppResponses ==
  SeqsUpTo({[target |-> t, message |-> [type |-> "hand_broadcast"]] : t \in MessageTargets},
           MaxResponses)

TickMessages == SeqsUpTo({[type |-> "app_tick"]}, MaxTickMsgs)

EndResults ==
  {<<>>} \cup {<<[winnerId |-> generateParticipantId(n), winnerNumber |-> n]>> : n \in 1..2}

\* ---------------------------------------------------- InactivityMonitor
\* The monitor's code is a composition of operators on the record m of its
\* fields; t is the value Date.now() returns.
Monitor ==
  [lastActivityTime |-> lastActivityTime, connectionCount |-> connectionCount,
   hasEverConnected |-> hasEverConnected, checkInterval |-> checkInterval,
   shutdowns |-> shutdowns]

ColdStart == "No participants connected within timeoutMs of startup"
Emptied == "No participants connected for timeoutMs"
Idle == "No activity for timeoutMs"

recordActivity(m, t) == [m EXCEPT !.lastActivityTime = t]

recordConnection(m, connected, t) ==
  IF connected
  THEN [m EXCEPT !.connectionCount = @ + 1,
                 !.hasEverConnected = TRUE,
                 !.lastActivityTime = t]
  ELSE [m EXCEPT !.connectionCount = IF @ - 1 > 0 THEN @ - 1 ELSE 0,
                 !.lastActivityTime = t]

\* mutant of monitorStop: the interval is not cleared
monitorStop_keepsInterval(m) == m

\* InactivityMonitor.stop(): clearInterval, after which the callback of the
\* interval is not called again
monitorStop(m) ==
  IF m.checkInterval THEN [m EXCEPT !.checkInterval = FALSE] ELSE m

\* config.onShutdown(reason)
onShutdown(m, reason, t) ==
  [m EXCEPT !.shutdowns = Append(@, [reason |-> reason, at |-> t])]

\* mutant of check: the monitor is not stopped before the callback
check_noStop(m, t) ==
  LET timeSinceStart == t - startTime
      timeSinceActivity == t - m.lastActivityTime
  IN IF ~m.hasEverConnected /\ timeSinceStart >= timeoutMs
     THEN onShutdown(m, ColdStart, t)
     ELSE IF m.hasEverConnected /\ m.connectionCount = 0 /\ timeSinceActivity >= timeoutMs
     THEN onShutdown(m, Emptied, t)
     ELSE IF m.connectionCount > 0 /\ timeSinceActivity >= timeoutMs
     THEN onShutdown(m, Idle, t)
     ELSE m

\* mutant of check: the idle case measures the time since start
check_sinceStart(m, t) ==
  LET timeSinceStart == t - startTime
      timeSinceActivity == t - m.lastActivityTime
  IN IF ~m.hasEverConnected /\ timeSinceStart >= timeoutMs
     THEN onShutdown(monitorStop(m), ColdStart, t)
     ELSE IF m.hasEverConnected /\ m.connectionCount = 0 /\ timeSinceActivity >= timeoutMs
     THEN onShutdown(monitorStop(m), Emptied, t)
     ELSE IF m.connectionCount > 0 /\ timeSinceStart >= timeoutMs
     THEN onShutdown(monitorStop(m), Idle, t)
     ELSE m

\* mutant of check: the idle case is missing
check_noIdleCase(m, t) ==
  LET timeSinceStart == t - startTime
      timeSinceActivity == t - m.lastActivityTime
  IN IF ~m.hasEverConnected /\ timeSinceStart >= timeoutMs
     THEN onShutdown(monitorStop(m), ColdStart, t)
     ELSE IF m.hasEverConnected /\ m.connectionCount = 0 /\ timeSinceActivity >= timeoutMs
     THEN onShutdown(monitorStop(m), Emptied, t)
     ELSE m

check(m, t) ==
  LET timeSinceStart == t - startTime
      timeSinceActivity == t - m.lastActivityTime
  IN IF ~m.hasEverConnected /\ timeSinceStart >= timeoutMs
     THEN onShutdown(monitorStop(m), ColdStart, t)
     ELSE IF m.hasEverConnected /\ m.connectionCount = 0 /\ timeSinceActivity >= timeoutMs
     THEN onShutdown(monitorStop(m), Emptied, t)
     ELSE IF m.connectionCount > 0 /\ timeSinceActivity >= timeoutMs
     THEN onShutdown(monitorStop(m), Idle, t)
     ELSE m

\* the fields of m become the next state
SetMonitor(m) ==
  /\ lastActivityTime' = m.lastActivityTime
  /\ connectionCount' = m.connectionCount
  /\ hasEverConnected' = m.hasEverConnected
  /\ checkInterval' = m.checkInterval
  /\ shutdowns' = m.shutdowns
  /\ UNCHANGED <<timeoutMs, checkIntervalMs, startTime>>

\* a monitor operation called without the server around it
ApplyMonitor(m) ==
  SetMonitor(m) /\ UNCHANGED <<runtimeVars, serverVars, clientVars>>

\* new InactivityMonitor({timeoutMs: T, checkIntervalMs: C, onShutdown})
InitMonitor(T, C) ==
  /\ now = 0
  /\ timeoutMs = T
  /\ checkIntervalMs = C
  /\ startTime = now
  /\ lastActivityTime = now
  /\ connectionCount = 0
  /\ hasEverConnected = FALSE
  /\ checkInterval = TRUE
  /\ nextCheckAt = now + C
  /\ shutdowns = <<>>
  /\ stopCalled = FALSE

\* createAppServer(config) with this ignore list, before any event
InitServer(ignore) ==
  /\ ignoreMessageTypes = ignore
  /\ isShuttingDown = FALSE
  /\ shutdownSteps = <<>>
  /\ closeCallbackRan = FALSE
  /\ exitWaiting = FALSE
  /\ exited = FALSE

\* ------------------------------------------------------- SessionClient
\* null: the value of ws and reconnectTimeout before they are assigned
NoSocket == 0
NoTimer == 0
\* null / undefined as the value of an id, a phase or a url
Null == "null"

Sockets == 1..MaxSockets

DEFAULT_CLIENT_CONFIG ==
  [autoReconnect |-> FALSE, reconnectDelayMs |-> 1000, maxReconnectAttempts |-> 5]

FRAMEWORK_MESSAGE_TYPES ==
  {"welcome", "opponent_joined", "opponent_left", "session_started",
   "game_started", "session_ended", "game_over", "play_again_status",
   "session_reset", "game_reset", "error"}

\* a ?? b
Coalesce(a, b) == IF a \in {Null, NoType} THEN b ELSE a
CoalesceNumber(a, b) == IF a = NoNumber THEN b ELSE a

\* the client object, its config, the sockets and the timers as one record
CurClient ==
  [ws |-> client.ws,
   connectionState |-> client.connectionState,
   reconnectAttempts |-> client.reconnectAttempts,
   reconnectTimeout |-> client.reconnectTimeout,
   lastUrl |-> client.lastUrl,
   participantId |-> client.participantId,
   participantNumber |-> client.participantNumber,
   sessionPhase |-> client.sessionPhase,
   config |-> clientConfig,
   sockets |-> sockets,
   timers |-> timers,
   timersCreated |-> timersCreated,
   scheduledSinceOpen |-> scheduledSinceOpen,
   sinceDisconnect |-> sinceDisconnect,
   trace |-> <<>>]

\* one observable effect of the client, with the state visible at that moment
ClientEvent(cl, kind, name, socket) ==
  [kind |-> kind, name |-> name, socket |-> socket,
   connectionState |-> cl.connectionState,
   sessionPhase |-> cl.sessionPhase,
   participantId |-> cl.participantId,
   participantNumber |-> cl.participantNumber]

emit(cl, kind, name, socket) ==
  [cl EXCEPT !.trace = Append(@, ClientEvent(cl, kind, name, socket))]

\* this.events.<name>?.(...)
eventCall(cl, name) == emit(cl, "handler", name, NoSocket)

setConnectionState(cl, state) ==
  eventCall([cl EXCEPT !.connectionState = state], "onConnectionStateChange")

isConnected(cl) == cl.ws # NoSocket /\ cl.sockets[cl.ws] = "OPEN"

\* mutant of send: the message is handed to the socket whatever its state
send_unguarded(cl, message) ==
  IF cl.ws # NoSocket
  THEN emit(cl, "send", message.type, cl.ws)
  ELSE emit(cl, "warn", message.type, NoSocket)

send(cl, message) ==
  IF isConnected(cl) /\ cl.ws # NoSocket
  THEN emit(cl, "send", message.type, cl.ws)
  ELSE emit(cl, "warn", message.type, NoSocket)

sendReady(cl) == send(cl, [type |-> "participant_ready"])

sendPlayAgainVote(cl) == send(cl, [type |-> "play_again_vote"])

sendAppMessage(cl, message) == send(cl, message)

\* mutant of handleWelcome: the phase of the welcome message is not read
handleWelcome_phaseIgnored(cl, message) ==
  LET s1 == [cl EXCEPT
               !.participantId = Coalesce(message.participantId, message.playerId),
               !.participantNumber =
                  CoalesceNumber(message.participantNumber, message.playerNumber)]
  IN eventCall(s1, "onSessionJoin")

handleWelcome(cl, message) ==
  LET s1 == [cl EXCEPT
               !.participantId = Coalesce(message.participantId, message.playerId),
               !.participantNumber =
                  CoalesceNumber(message.participantNumber, message.playerNumber),
               !.sessionPhase =
                  Coalesce(Coalesce(message.sessionPhase, message.gamePhase), "waiting")]
  IN eventCall(s1, "onSessionJoin")

\* mutant of handleFrameworkMessage: the handlers of the phase messages are
\* invoked before the phase is assigned
client_handleFrameworkMessage_handlerFirst(cl, message) ==
  CASE message.type = "welcome" -> handleWelcome(cl, message)
    [] message.type = "opponent_joined" -> eventCall(cl, "onOpponentJoined")
    [] message.type = "opponent_left" -> eventCall(cl, "onOpponentLeft")
    [] message.type \in {"session_started", "game_started"} ->
         [eventCall(cl, "onSessionStart") EXCEPT !.sessionPhase = "playing"]
    [] message.type \in {"session_ended", "game_over"} ->
         [eventCall(cl, "onSessionEnd") EXCEPT !.sessionPhase = "finished"]
    [] message.type = "play_again_status" -> eventCall(cl, "onPlayAgainStatus")
    [] message.type \in {"session_reset", "game_reset"} ->
         [eventCall(cl, "onSessionReset") EXCEPT !.sessionPhase = "waiting"]
    [] message.type = "error" -> eventCall(cl, "onError")
    [] OTHER -> cl

client_handleFrameworkMessage(cl, message) ==
  CASE message.type = "welcome" -> handleWelcome(cl, message)
    [] message.type = "opponent_joined" -> eventCall(cl, "onOpponentJoined")
    [] message.type = "opponent_left" -> eventCall(cl, "onOpponentLeft")
    [] message.type \in {"session_started", "game_started"} ->
         eventCall([cl EXCEPT !.sessionPhase = "playing"], "onSessionStart")
    [] message.type \in {"session_ended", "game_over"} ->
         eventCall([cl EXCEPT !.sessionPhase = "finished"], "onSessionEnd")
    [] message.type = "play_again_status" -> eventCall(cl, "onPlayAgainStatus")
    [] message.type \in {"session_reset", "game_reset"} ->
         eventCall([cl EXCEPT !.sessionPhase = "waiting"], "onSessionReset")
    [] message.type = "error" -> eventCall(cl, "onError")
    [] OTHER -> cl

client_handleMessage(cl, message) ==
  IF message.type \in FRAMEWORK_MESSAGE_TYPES
  THEN client_handleFrameworkMessage(cl, message)
  ELSE eventCall(cl, "onAppMessage")

\* setTimeout(callback, delay): a new handle, pending until it fires or is
\* cleared; the delay is kept in the event
setTimeout(cl, delay) ==
  LET handle == cl.timersCreated + 1
      s1 == [cl EXCEPT !.timersCreated = handle, !.timers = @ \cup {handle},
                       !.scheduledSinceOpen = @ + 1]
  IN emit(s1, "setTimeout", ToString(delay), NoSocket)

\* mutant of maybeReconnect: the attempts are not limited
maybeReconnect_unlimited(cl) ==
  IF ~cl.config.autoReconnect \/ cl.lastUrl = Null THEN cl
  ELSE LET s1 == [cl EXCEPT !.reconnectAttempts = @ + 1]
           s2 == setTimeout(s1, cl.config.reconnectDelayMs)
       IN [s2 EXCEPT !.reconnectTimeout = s2.timersCreated]

maybeReconnect(cl) ==
  IF ~cl.config.autoReconnect \/ cl.lastUrl = Null THEN cl
  ELSE IF cl.reconnectAttempts >= cl.config.maxReconnectAttempts
  THEN emit(cl, "warn", "Max reconnection attempts reached", NoSocket)
  ELSE LET s1 == [cl EXCEPT !.reconnectAttempts = @ + 1]
           s2 == setTimeout(s1, cl.config.reconnectDelayMs)
       IN [s2 EXCEPT !.reconnectTimeout = s2.timersCreated]

cancelReconnect(cl) ==
  LET s1 == IF cl.reconnectTimeout # NoTimer
            THEN [emit(cl, "clearTimeout", "reconnect", NoSocket)
                    EXCEPT !.timers = @ \ {cl.reconnectTimeout},
                           !.reconnectTimeout = NoTimer]
            ELSE cl
  IN [s1 EXCEPT !.reconnectAttempts = 0]

reset(cl) ==
  [cl EXCEPT !.participantId = Null, !.participantNumber = NoNumber,
             !.sessionPhase = "waiting"]

\* the handlers connect() installs on every socket it creates
onopen(cl) ==
  setConnectionState([cl EXCEPT !.reconnectAttempts = 0, !.scheduledSinceOpen = 0],
                     "connected")

onmessage(cl, data) ==
  IF ~data.wellFormed
  THEN emit(cl, "error", "Failed to parse server message", NoSocket)
  ELSE client_handleMessage(cl, data)

onclose(cl) == maybeReconnect(setConnectionState(cl, "disconnected"))

onerror(cl) == setConnectionState(cl, "error")

\* new WebSocket(url): the lowest socket not yet created, CONNECTING
connect(cl, url) ==
  LET s1 == setConnectionState([cl EXCEPT !.lastUrl = url], "connecting")
      socket == CHOOSE s \in Sockets :
                  /\ s1.sockets[s] = "NONE"
                  /\ \A t \in Sockets : s1.sockets[t] = "NONE" => s <= t
  IN [emit(s1, "new WebSocket", url, socket)
        EXCEPT !.sockets[socket] = "CONNECTING", !.ws = socket]

\* the callback given to setTimeout by maybeReconnect
reconnectCallback(cl) ==
  IF cl.lastUrl # Null THEN connect(cl, cl.lastUrl) ELSE cl

\* WebSocket.close(): nothing on a socket that is closing or closed; else
\* the socket starts closing and its close event is dispatched later (sync
\* = FALSE, a browser socket) or from within the call (sync = TRUE)
wsClose(cl, socket, sync) ==
  IF cl.sockets[socket] \notin {"CONNECTING", "OPEN"} THEN cl
  ELSE IF sync
  THEN onclose([emit(cl, "close", "ws.close", socket)
                  EXCEPT !.sockets[socket] = "CLOSED"])
  ELSE [emit(cl, "close", "ws.close", socket) EXCEPT !.sockets[socket] = "CLOSING"]

\* mutant of disconnect: the reconnect is cancelled only before the close
disconnect_cancelOnce(cl, sync) ==
  LET s1 == cancelReconnect(cl)
      s2 == IF s1.ws # NoSocket
            THEN [wsClose(s1, s1.ws, sync) EXCEPT !.ws = NoSocket]
            ELSE s1
      s4 == setConnectionState(s2, "disconnected")
  IN reset(s4)

disconnect(cl, sync) ==
  LET s1 == cancelReconnect(cl)
      s2 == IF s1.ws # NoSocket
            THEN [wsClose(s1, s1.ws, sync) EXCEPT !.ws = NoSocket]
            ELSE s1
      s3 == cancelReconnect(s2)
      s4 == setConnectionState(s3, "disconnected")
  IN reset(s4)

\* the frames a server may send: unparsable data, every framework type,
\* welcome with canonical names, with legacy names and without a phase,
\* an app message and a message without a type
Frame(type) ==
  [wellFormed |-> TRUE, type |-> type,
   participantId |-> NoType, playerId |-> NoType,
   participantNumber |-> NoNumber, playerNumber |-> NoNumber,
   sessionPhase |-> NoType, gamePhase |-> NoType]

Welcome(id, number, sessionPhase) ==
  [Frame("welcome") EXCEPT !.participantId = id, !.participantNumber = number,
                           !.sessionPhase = sessionPhase]

ServerAppTypes == {"hand_broadcast"}

ServerFrames ==
  {[Frame(NoType) EXCEPT !.wellFormed = FALSE], Frame(NoType)}
  \cup {Frame(t) : t \in (FRAMEWORK_MESSAGE_TYPES \ {"welcome"}) \cup ServerAppTypes}
  \cup {Welcome(generateParticipantId(n), n, p) : n \in 1..2, p \in SessionPhases}
  \cup {[Frame("welcome") EXCEPT !.playerId = generateParticipantId(2),
                                 !.playerNumber = 2, !.gamePhase = "playing"],
        [Frame("welcome") EXCEPT !.participantId = generateParticipantId(1),
                                 !.participantNumber = 1]}

\* the fields of cl become the next state
SetClient(cl, op) ==
  /\ client' = [ws |-> cl.ws,
                connectionState |-> cl.connectionState,
                reconnectAttempts |-> cl.reconnectAttempts,
                reconnectTimeout |-> cl.reconnectTimeout,
                lastUrl |-> cl.lastUrl,
                participantId |-> cl.participantId,
                participantNumber |-> cl.participantNumber,
                sessionPhase |-> cl.sessionPhase]
  /\ sockets' = cl.sockets
  /\ timers' = cl.timers
  /\ timersCreated' = cl.timersCreated
  /\ scheduledSinceOpen' = cl.scheduledSinceOpen
  /\ sinceDisconnect' = cl.sinceDisconnect
  /\ clientTrace' = cl.trace
  /\ clientOp' = op
  /\ UNCHANGED clientConfig

\* a client operation without a server behind the sockets; no more than
\* MaxTimers timers are ever created
ApplyClient(cl, op) ==
  /\ cl.timersCreated <= MaxTimers
  /\ SetClient(cl, op)
  /\ UNCHANGED <<serverConn, inflight, runtimeVars, monitorVars, serverVars>>

ClientOp(name, socket, type) == [name |-> name, socket |-> socket, type |-> type]

\* new SessionClient(events, config)
InitClient(config) ==
  /\ client = [ws |-> NoSocket, connectionState |-> "disconnected",
               reconnectAttempts |-> 0, reconnectTimeout |-> NoTimer,
               lastUrl |-> Null, participantId |-> Null,
               participantNumber |-> NoNumber, sessionPhase |-> "waiting"]
  /\ clientConfig = config
  /\ sockets = [s \in Sockets |-> "NONE"]
  /\ timers = {}
  /\ timersCreated = 0
  /\ scheduledSinceOpen = 0
  /\ sinceDisconnect = FALSE
  /\ serverConn = NoConn
  /\ inflight = <<>>
  /\ clientTrace = <<>>
  /\ clientOp = ClientOp("new", NoSocket, NoType)

\* ----------------------------------------------------------------- actions
Op(name, conn, type) == [name |-> name, conn |-> conn, type |-> type]

\* the fields of st become the next state
ApplyRuntime(st, op) ==
  /\ participants' = st.participants
  /\ connections' = st.connections
  /\ phase' = st.phase
  /\ tickInterval' = st.tickInterval
  /\ readyState' = st.readyState
  /\ trace' = st.trace
  /\ returned' = st.returned
  /\ leftSinceStart' = st.leftSinceStart
  /\ startedTo' = st.startedTo
  /\ endedSent' = st.endedSent
  /\ lastOp' = op
  /\ UNCHANGED <<tickEnabled, parser>>

\* a runtime operation called without the server around it
ApplyFields(st, op) ==
  ApplyRuntime(st, op) /\ UNCHANGED <<monitorVars, serverVars, clientVars>>

Apply(st, op) == ApplyFields(st, op) /\ UNCHANGED unhandled

\* new SessionRuntime(...)
InitRuntime ==
  /\ participants = <<>>
  /\ connections = <<>>
  /\ phase = "waiting"
  /\ tickInterval = FALSE
  /\ readyState = [c \in Conns |-> OPEN]
  /\ tickDue = FALSE
  /\ trace = <<>>
  /\ returned = <<>>
  /\ lastOp = Op("new", NoConn, NoType)
  /\ unhandled = {}
  /\ leftSinceStart = FALSE
  /\ startedTo = {}
  /\ endedSent = FALSE

\* the runtime with any configuration; the monitor is constructed and left
\* alone
Init ==
  /\ InitRuntime
  /\ tickEnabled \in BOOLEAN
  /\ parser \in Parsers
  /\ InitMonitor(MaxTimeoutMs, MaxCheckIntervalMs)
  /\ InitServer({})
  /\ InitClient(DEFAULT_CLIENT_CONFIG)

\* the connection objects the runtime holds a binding for
Bound == {connections[i].key : i \in 1..Len(connections)}

\* Socket objects only matter by identity: a new socket takes the lowest
\* slot of Conns that no live socket occupies.
FreshConn == CHOOSE c \in Conns \ Bound : \A d \in Conns \ Bound : c <= d

\* wss 'connection' event: a new, open socket is offered for admission.  A
\* rejected socket gets no event handlers and is never seen again, so its
\* slot is free again after the call.
Connect(c) ==
  /\ c = FreshConn
  /\ LET st == handleConnection(Cur, c)
     IN Apply(IF st.returned = <<>> THEN [st EXCEPT !.readyState[c] = OPEN] ELSE st,
              Op("handleConnection", c, NoType))
  /\ UNCHANGED tickDue

\* wss 'connection' event in which hooks.onParticipantJoin throws: the
\* exception leaves handleConnection and the listener, so the listener's
\* ws.on('message') and ws.on('close') are never reached for this socket
ConnectThrow(c) ==
  /\ c = FreshConn
  /\ getNextParticipantNumber(Cur) # NoNumber
  /\ ApplyFields(handleConnectionJoinThrows(Cur, c),
                 [name |-> "handleConnection", conn |-> c, type |-> NoType,
                  threw |-> "onParticipantJoin"])
  /\ unhandled' = unhandled \cup {c}
  /\ UNCHANGED tickDue

\* the transport of an admitted connection leaves OPEN (peer closes)
SocketClose(c) ==
  /\ c \in Bound
  /\ readyState[c] = OPEN
  /\ Apply([Cur EXCEPT !.readyState[c] = CLOSED], Op("socketClose", c, NoType))
  /\ UNCHANGED tickDue

\* ws 'close' event of an admitted connection, or a handleDisconnection call
\* for a connection that is not bound; afterwards the socket object is gone
\* and its slot stands for a new socket
Disconnect(c) ==
  /\ \/ c \in Bound \ unhandled /\ readyState[c] # OPEN
     \/ c = FreshConn
  /\ Apply([handleDisconnection(Cur, c) EXCEPT !.readyState[c] = OPEN,
                                               !.startedTo = @ \ {c}],
           Op("handleDisconnection", c, NoType))
  /\ UNCHANGED tickDue

\* the participant bound to c has wantsPlayAgain = true
HasVoted(c) ==
  /\ MapHas(connections, c)
  /\ MapHas(participants, MapGet(connections, c))
  /\ MapGet(participants, MapGet(connections, c)).wantsPlayAgain

\* ws 'message' event of an open admitted connection, or a handleMessage
\* call for a connection that is not bound
Message(c) ==
  /\ \/ c \in Bound \ unhandled /\ readyState[c] = OPEN
     \/ c = FreshConn
  /\ \E rawData \in RawFrames :
       \E responses \in (IF this_parseMessage(rawData) # <<>> /\ ~isFrameworkMessage(this_parseMessage(rawData)[1])
                         THEN AppResponses ELSE {<<>>}) :
         Apply(handleMessage(Cur, c, rawData, responses),
               [name |-> "handleMessage", conn |-> c, type |-> rawData.type,
                responses |-> responses, hadVoted |-> HasVoted(c)])
  /\ UNCHANGED tickDue

\* the app calls runtime.endSession
EndSession ==
  /\ \E n \in 1..2, reason \in SessionEndedReasons :
       Apply(endSession(Cur, generateParticipantId(n), n, reason),
             [name |-> "endSession", conn |-> NoConn, type |-> reason,
              winnerId |-> generateParticipantId(n), winnerNumber |-> n])
  /\ UNCHANGED tickDue

\* the app calls runtime.sendToParticipant
SendToParticipant ==
  /\ \E n \in 1..2, message \in AppMessages :
       Apply(sendToParticipant(Cur, generateParticipantId(n), message),
             [name |-> "sendToParticipant", conn |-> NoConn, type |-> message.type,
              participantId |-> generateParticipantId(n)])
  /\ UNCHANGED tickDue

\* the app calls runtime.broadcast
Broadcast ==
  /\ \E message \in AppMessages :
       Apply(broadcast(Cur, message), Op("broadcast", NoConn, message.type))
  /\ UNCHANGED tickDue

\* runtime.stop()
Stop ==
  /\ Apply(stop(Cur), Op("stop", NoConn, NoType))
  /\ UNCHANGED tickDue

\* the interval elapses: a firing is queued
TimerFire ==
  /\ tickInterval
  /\ ~tickDue
  /\ tickDue' = TRUE
  /\ Apply(Cur, Op("timer", NoConn, NoType))

\* a queued firing runs the interval callback
Tick ==
  /\ tickDue
  /\ tickDue' = FALSE
  /\ \E messages \in TickMessages, endResult \in EndResults :
       Apply(tickCallback(Cur, messages, endResult), Op("tick", NoConn, NoType))

\* the event loop drops the queued firing of a cleared interval
DiscardDue ==
  /\ tickDue
  /\ ~tickInterval
  /\ tickDue' = FALSE
  /\ Apply(Cur, Op("discard", NoConn, NoType))

Next ==
  \/ \E c \in Conns : Connect(c)
  \/ \E c \in Conns : SocketClose(c)
  \/ \E c \in Conns : Disconnect(c)
  \/ \E c \in Conns : Message(c)
  \/ EndSession
  \/ SendToParticipant
  \/ Broadcast
  \/ Stop
  \/ TimerFire
  \/ Tick
  \/ DiscardDue

Spec == Init /\ [][Next]_vars

\* the connection operations, with a join hook that may throw
NextThrow ==
  \/ \E c \in Conns : Connect(c)
  \/ \E c \in Conns : ConnectThrow(c)
  \/ \E c \in Conns : SocketClose(c)
  \/ \E c \in Conns : Disconnect(c)
  \/ \E c \in Conns : Message(c)

SpecThrow == Init /\ [][NextThrow]_vars

\* ------------------------------------------ the monitor on its own
\* time passes; a live interval fires when it is due, so the clock does not
\* pass its next firing
Advance ==
  /\ now < MaxNow
  /\ checkInterval => now < nextCheckAt
  /\ now' = now + 1
  /\ ApplyMonitor(Monitor)
  /\ UNCHANGED <<nextCheckAt, stopCalled>>

\* the interval fires: () => this.check(), and is due again one interval later
Check ==
  /\ checkInterval
  /\ now = nextCheckAt
  /\ ApplyMonitor(check(Monitor, now))
  /\ nextCheckAt' = now + checkIntervalMs
  /\ UNCHANGED <<now, stopCalled>>

RecordActivity ==
  /\ ApplyMonitor(recordActivity(Monitor, now))
  /\ UNCHANGED <<now, nextCheckAt, stopCalled>>

RecordConnection(connected) ==
  /\ connected => connectionCount < MaxCount
  /\ ApplyMonitor(recordConnection(Monitor, connected, now))
  /\ UNCHANGED <<now, nextCheckAt, stopCalled>>

MonitorStop ==
  /\ ApplyMonitor(monitorStop(Monitor))
  /\ stopCalled' = TRUE
  /\ UNCHANGED <<now, nextCheckAt>>

NextMonitor ==
  \/ Advance
  \/ Check
  \/ RecordActivity
  \/ \E connected \in BOOLEAN : RecordConnection(connected)
  \/ MonitorStop

\* a monitor with any configuration; the runtime is constructed and left alone
InitMonitorSpec ==
  /\ InitRuntime
  /\ tickEnabled = FALSE
  /\ parser = "parseMessage"
  /\ \E T \in 1..MaxTimeoutMs, C \in 1..MaxCheckIntervalMs : InitMonitor(T, C)
  /\ InitServer({})
  /\ InitClient(DEFAULT_CLIENT_CONFIG)

SpecMonitor == InitMonitorSpec /\ [][NextMonitor]_vars

\* ------------------------------------------------------ createAppServer
\* The closure of createAppServer as a record: the monitor, the runtime and
\* the shutdown state.  promise is what the last shutdown() call returned:
\* a promise that is already resolved, or one that the close callback
\* resolves.
Srv ==
  [monitor |-> Monitor, runtime |-> Cur, isShuttingDown |-> isShuttingDown,
   steps |-> shutdownSteps, closeCallbackRan |-> closeCallbackRan,
   exitWaiting |-> exitWaiting, exited |-> exited, promise |-> "none"]

\* mutant of shutdown: the isShuttingDown guard is missing
shutdown_unguarded(sv) ==
  LET s1 == [sv EXCEPT !.isShuttingDown = TRUE]
      s2 == [s1 EXCEPT !.monitor = monitorStop(@),
                       !.steps = Append(@, "inactivityMonitor.stop")]
      s3 == [s2 EXCEPT !.runtime = stop(@),
                       !.steps = Append(@, "runtime.stop")]
      s4 == [s3 EXCEPT !.steps = Append(@, "wss.close")]
  IN [s4 EXCEPT !.promise = "pending"]

shutdown(sv) ==
  IF sv.isShuttingDown THEN [sv EXCEPT !.promise = "resolved"]
  ELSE LET s1 == [sv EXCEPT !.isShuttingDown = TRUE]
           s2 == [s1 EXCEPT !.monitor = monitorStop(@),
                            !.steps = Append(@, "inactivityMonitor.stop")]
           s3 == [s2 EXCEPT !.runtime = stop(@),
                            !.steps = Append(@, "runtime.stop")]
           s4 == [s3 EXCEPT !.steps = Append(@, "wss.close")]
       IN [s4 EXCEPT !.promise = "pending"]

\* .then(() => process.exit(0)) on the promise shutdown() returned: the
\* continuation of a resolved promise runs before any other event
thenExit(sv) ==
  IF sv.promise = "resolved" THEN [sv EXCEPT !.exited = TRUE]
  ELSE [sv EXCEPT !.exitWaiting = TRUE]

handleSignal(sv) == thenExit(shutdown(sv))

\* the onShutdown callback the monitor is constructed with
inactivityShutdown(sv) == thenExit(shutdown(sv))

\* the callback given to wss.close: resolves the promise of the first
\* shutdown() call, whose continuations then run
closeCallback(sv) ==
  [sv EXCEPT !.closeCallbackRan = TRUE,
             !.exited = @ \/ sv.exitWaiting,
             !.exitWaiting = FALSE]

\* mutant of trackActivity: every frame counts as activity
trackActivity_always(m, rawData, t) == recordActivity(m, t)

\* the activity tracking of the ws 'message' listener
trackActivity(m, rawData, t) ==
  IF ignoreMessageTypes # {}
  THEN IF ~rawData.wellFormed THEN recordActivity(m, t)
       ELSE IF rawData.type = NoType \/ rawData.type \notin ignoreMessageTypes
            THEN recordActivity(m, t)
            ELSE m
  ELSE recordActivity(m, t)

\* the wss 'connection' listener
onConnection(sv, conn, t) ==
  LET s1 == [sv EXCEPT !.monitor = recordConnection(@, TRUE, t)]
      s2 == [s1 EXCEPT !.runtime = handleConnection(@, conn)]
  IN IF s2.runtime.returned = <<>>
     THEN [s2 EXCEPT !.monitor = recordConnection(@, FALSE, t)]
     ELSE s2

\* the ws 'message' listener
onMessage(sv, conn, rawData, responses, t) ==
  LET s1 == [sv EXCEPT !.monitor = trackActivity(@, rawData, t)]
  IN [s1 EXCEPT !.runtime = handleMessage(@, conn, rawData, responses)]

\* the ws 'close' listener
onClose(sv, conn, t) ==
  LET s1 == [sv EXCEPT !.monitor = recordConnection(@, FALSE, t)]
  IN [s1 EXCEPT !.runtime = handleDisconnection(@, conn)]

\* the fields of sv become the next state
ApplyServer(sv, op) ==
  /\ SetMonitor(sv.monitor)
  /\ ApplyRuntime(sv.runtime, op)
  /\ isShuttingDown' = sv.isShuttingDown
  /\ shutdownSteps' = sv.steps
  /\ closeCallbackRan' = sv.closeCallbackRan
  /\ exitWaiting' = sv.exitWaiting
  /\ exited' = sv.exited
  /\ stopCalled' = (stopCalled \/ sv.isShuttingDown)
  /\ UNCHANGED <<ignoreMessageTypes, unhandled, tickDue, now, clientVars>>

\* a socket connects; the listening socket accepts none once it is closing
WsConnection(c) ==
  /\ ~exited /\ ~isShuttingDown
  /\ c = FreshConn
  /\ connectionCount < MaxCount + 1
  /\ LET sv == onConnection(Srv, c, now)
     IN ApplyServer(IF sv.runtime.returned = <<>>
                    THEN [sv EXCEPT !.runtime.readyState[c] = OPEN] ELSE sv,
                    Op("handleConnection", c, NoType))
  /\ UNCHANGED nextCheckAt

WsSocketClose(c) == ~exited /\ SocketClose(c)

WsMessage(c) ==
  /\ ~exited
  /\ c \in Bound /\ readyState[c] = OPEN
  /\ \E rawData \in RawFrames :
       \E responses \in (IF this_parseMessage(rawData) # <<>> /\ ~isFrameworkMessage(this_parseMessage(rawData)[1])
                         THEN AppResponses ELSE {<<>>}) :
         ApplyServer(onMessage(Srv, c, rawData, responses, now),
                     [name |-> "handleMessage", conn |-> c, type |-> rawData.type,
                      responses |-> responses, hadVoted |-> HasVoted(c)])
  /\ UNCHANGED nextCheckAt

WsClose(c) ==
  /\ ~exited
  /\ c \in Bound /\ readyState[c] # OPEN
  /\ ApplyServer([onClose(Srv, c, now) EXCEPT !.runtime.readyState[c] = OPEN,
                                               !.runtime.startedTo = @ \ {c}],
                 Op("handleDisconnection", c, NoType))
  /\ UNCHANGED nextCheckAt

ServerAdvance == ~exited /\ now < MaxServerNow /\ Advance

\* the monitor's interval fires in the server
ServerCheck ==
  /\ ~exited
  /\ checkInterval
  /\ now = nextCheckAt
  /\ LET m == check(Monitor, now)
         sv == [Srv EXCEPT !.monitor = m]
     IN ApplyServer(IF m.shutdowns # shutdowns THEN inactivityShutdown(sv) ELSE sv,
                    Op("check", NoConn, NoType))
  /\ nextCheckAt' = now + checkIntervalMs

\* SIGTERM or SIGINT
Signal ==
  /\ ~exited
  /\ \E signal \in {"SIGTERM", "SIGINT"} :
       ApplyServer(handleSignal(Srv), Op("handleSignal", NoConn, signal))
  /\ UNCHANGED nextCheckAt

\* the owner of the server calls stop()
ServerStop ==
  /\ ~exited
  /\ ApplyServer(shutdown(Srv), Op("server.stop", NoConn, NoType))
  /\ UNCHANGED nextCheckAt

\* the listening socket has closed
WssClosed ==
  /\ ~exited
  /\ isShuttingDown /\ ~closeCallbackRan
  /\ ApplyServer(closeCallback(Srv), Op("closeCallback", NoConn, NoType))
  /\ UNCHANGED nextCheckAt

\* the server with its clients and its monitor, left alone by its owner and
\* by the operator
NextServer ==
  \/ \E c \in Conns : WsConnection(c)
  \/ \E c \in Conns : WsSocketClose(c)
  \/ \E c \in Conns : WsMessage(c)
  \/ \E c \in Conns : WsClose(c)
  \/ ServerAdvance
  \/ ServerCheck
  \/ WssClosed

\* the server without clients: the shutdown requests of the monitor, of the
\* operator and of the owner
ShutdownAdvance == ~exited /\ Advance

NextShutdown ==
  \/ ShutdownAdvance
  \/ ServerCheck
  \/ Signal
  \/ ServerStop
  \/ WssClosed

\* config.inactivity of the server: timeoutMs and checkIntervalMs
ServerTimeoutMs == 1
ServerCheckIntervalMs == 1

\* inactivity.ignoreMessageTypes as the hello-hands server passes it
HelloHandsIgnoreMessageTypes == {}

InitServerSpec ==
  /\ InitRuntime
  /\ tickEnabled = FALSE
  /\ parser = "parseMessage"
  /\ InitMonitor(ServerTimeoutMs, ServerCheckIntervalMs)
  /\ \E ignore \in {HelloHandsIgnoreMessageTypes, {"hand_update"}} :
       InitServer(ignore)
  /\ InitClient(DEFAULT_CLIENT_CONFIG)

SpecServer == InitServerSpec /\ [][NextServer]_vars

InitShutdownSpec ==
  /\ InitRuntime
  /\ tickEnabled = FALSE
  /\ parser = "parseMessage"
  /\ \E T \in 1..MaxTimeoutMs, C \in 1..MaxCheckIntervalMs : InitMonitor(T, C)
  /\ InitServer({})
  /\ InitClient(DEFAULT_CLIENT_CONFIG)

SpecShutdown == InitShutdownSpec /\ [][NextShutdown]_vars

\* ------------------------------------------------ the client on its own
Url == "ws://server"

\* the default config, and autoReconnect enabled with a delay and a limit of
\* its own
ClientConfigs ==
  {DEFAULT_CLIENT_CONFIG}
  \cup {[autoReconnect |-> TRUE, reconnectDelayMs |-> 250, maxReconnectAttempts |-> m] :
          m \in 1..MaxReconnectAttempts}

CanCreateSocket == \E s \in Sockets : sockets[s] = "NONE"

\* the app calls connect(url)
ClientConnect ==
  /\ CanCreateSocket
  /\ ApplyClient([connect(CurClient, Url) EXCEPT !.sinceDisconnect = FALSE],
                 ClientOp("connect", NoSocket, NoType))

\* the app calls disconnect(); the socket dispatches its close event from
\* within close() or later
ClientDisconnect ==
  \E sync \in BOOLEAN :
    ApplyClient([disconnect(CurClient, sync) EXCEPT !.sinceDisconnect = TRUE],
                ClientOp("disconnect", client.ws, IF sync THEN "sync" ELSE "async"))

ClientSendReady ==
  ApplyClient(sendReady(CurClient), ClientOp("sendReady", client.ws, "participant_ready"))

ClientSendPlayAgainVote ==
  ApplyClient(sendPlayAgainVote(CurClient),
              ClientOp("sendPlayAgainVote", client.ws, "play_again_vote"))

ClientSendAppMessage ==
  ApplyClient(sendAppMessage(CurClient, [type |-> "hand_update"]),
              ClientOp("sendAppMessage", client.ws, "hand_update"))

\* the open event of a socket, current or replaced
ClientSocketOpen(s) ==
  /\ sockets[s] = "CONNECTING"
  /\ ApplyClient(onopen([CurClient EXCEPT !.sockets[s] = "OPEN"]),
                 ClientOp("onopen", s, NoType))

\* a message event: only an open socket dispatches them
ClientSocketMessage(s) ==
  /\ sockets[s] = "OPEN"
  /\ \E data \in ServerFrames :
       ApplyClient(onmessage(CurClient, data), ClientOp("onmessage", s, data.type))

\* the close event of a socket: the connection failed, the peer or the
\* network closed it, or close() was called on it earlier; an error event
\* may be dispatched right before it
ClientSocketClose(s) ==
  /\ sockets[s] \in {"CONNECTING", "OPEN", "CLOSING"}
  /\ \E withError \in BOOLEAN :
       LET s1 == [CurClient EXCEPT !.sockets[s] = "CLOSED"]
           s2 == IF withError THEN onerror(s1) ELSE s1
       IN ApplyClient(onclose(s2),
                      ClientOp("onclose", s, IF withError THEN "error" ELSE sockets[s]))

\* the oldest pending timer fires (all timers have the same delay)
ClientTimerFire ==
  /\ timers # {}
  /\ CanCreateSocket
  /\ LET handle == CHOOSE h \in timers : \A g \in timers : h <= g
     IN ApplyClient(reconnectCallback([CurClient EXCEPT !.timers = @ \ {handle}]),
                    ClientOp("reconnectCallback", NoSocket, NoType))

NextClient ==
  \/ ClientConnect
  \/ ClientDisconnect
  \/ ClientSendReady
  \/ ClientSendPlayAgainVote
  \/ ClientSendAppMessage
  \/ \E s \in Sockets : ClientSocketOpen(s)
  \/ \E s \in Sockets : ClientSocketMessage(s)
  \/ \E s \in Sockets : ClientSocketClose(s)
  \/ ClientTimerFire

InitClientSpec ==
  /\ InitRuntime
  /\ tickEnabled = FALSE
  /\ parser = "parseMessage"
  /\ InitMonitor(MaxTimeoutMs, MaxCheckIntervalMs)
  /\ InitServer(HelloHandsIgnoreMessageTypes)
  /\ \E config \in ClientConfigs : InitClient(config)

SpecClient == InitClientSpec /\ [][NextClient]_vars

\* ------------------------------------- a client connected to the runtime
\* JSON.stringify on the server, JSON.parse in the client: the client finds
\* a field under the name the server wrote it with
Field(msg, name, default) == IF name \in DOMAIN msg THEN msg[name] ELSE default

ToFrame(msg) ==
  [wellFormed |-> TRUE,
   type |-> Field(msg, "type", NoType),
   participantId |-> Field(msg, "participantId", NoType),
   playerId |-> Field(msg, "playerId", NoType),
   participantNumber |-> Field(msg, "participantNumber", NoNumber),
   playerNumber |-> Field(msg, "playerNumber", NoNumber),
   sessionPhase |-> Field(msg, "sessionPhase", NoType),
   gamePhase |-> Field(msg, "gamePhase", NoType)]

\* the close frame that ends the stream of a connection
CloseFrame == Frame("(close)")

\* the frames this operation has written to conn, in order, and the close
\* frame if it has closed conn
FramesTo(tr, conn) ==
  LET mine == SelectSeq(tr, LAMBDA e : e.conn = conn /\ e.kind \in {"send", "close"})
  IN [i \in 1..Len(mine) |->
        IF mine[i].kind = "send" THEN ToFrame(mine[i].msg) ELSE CloseFrame]

\* In this specification the events of an operation are not kept in trace
\* and clientTrace: what the runtime sends to the client goes to inflight,
\* and the last-operation records stay empty.
NoEvents ==
  /\ trace' = <<>>
  /\ returned' = <<>>
  /\ lastOp' = Op("none", NoConn, NoType)
  /\ clientTrace' = <<>>
  /\ clientOp' = ClientOp("none", NoSocket, NoType)

\* the fields of st become the next state of the runtime
RuntimeBecomes(st) ==
  /\ participants' = st.participants
  /\ connections' = st.connections
  /\ phase' = st.phase
  /\ tickInterval' = st.tickInterval
  /\ readyState' = st.readyState
  /\ leftSinceStart' = st.leftSinceStart
  /\ startedTo' = st.startedTo
  /\ endedSent' = st.endedSent
  /\ UNCHANGED <<tickEnabled, parser, unhandled, tickDue>>

\* the fields of cl become the next state of the client
ClientBecomes(cl) ==
  /\ client' = [ws |-> cl.ws,
                connectionState |-> cl.connectionState,
                reconnectAttempts |-> cl.reconnectAttempts,
                reconnectTimeout |-> cl.reconnectTimeout,
                lastUrl |-> cl.lastUrl,
                participantId |-> cl.participantId,
                participantNumber |-> cl.participantNumber,
                sessionPhase |-> cl.sessionPhase]
  /\ sockets' = cl.sockets
  /\ timers' = cl.timers
  /\ timersCreated' = cl.timersCreated
  /\ scheduledSinceOpen' = cl.scheduledSinceOpen
  /\ sinceDisconnect' = cl.sinceDisconnect
  /\ UNCHANGED clientConfig

\* a step of the runtime and of the client: what the runtime sends on the
\* client's connection is in flight to the client, in order
MirrorStep(st, cl, conn, frames) ==
  /\ Len(frames) <= MaxInflight
  /\ RuntimeBecomes(st)
  /\ ClientBecomes(cl)
  /\ NoEvents
  /\ serverConn' = conn
  /\ inflight' = frames
  /\ UNCHANGED <<monitorVars, serverVars>>

\* a step of the runtime alone
ServerStep(st, conn, frames) == MirrorStep(st, CurClient, conn, inflight \o frames)

\* a step of the client that the server does not see
ClientStep(cl, frames) == MirrorStep(Cur, cl, serverConn, frames)

LiveSockets == {s \in Sockets : sockets[s] \in {"CONNECTING", "OPEN"}}

\* the app calls connect(url) on a client that has no connection
MirrorConnect ==
  /\ LiveSockets = {}
  /\ CanCreateSocket
  /\ Cardinality({s \in Sockets : sockets[s] # "NONE"}) < MaxClientConnects
  /\ serverConn = NoConn
  /\ inflight = <<>>
  /\ ClientStep([connect(CurClient, Url) EXCEPT !.sinceDisconnect = FALSE], inflight)

\* wss 'connection' event for the client's socket: admitted (welcome is in
\* flight) or rejected (error and the close frame are in flight)
MirrorAccept ==
  /\ client.ws # NoSocket
  /\ sockets[client.ws] = "CONNECTING"
  /\ serverConn = NoConn
  /\ inflight = <<>>
  /\ LET c == FreshConn
         st == handleConnection(Cur, c)
     IN IF st.returned = <<>>
        THEN ServerStep([st EXCEPT !.readyState[c] = OPEN], NoConn,
                        FramesTo(st.trace, c))
        ELSE ServerStep(st, c, FramesTo(st.trace, c))

\* the open event of the client's socket, after the server has answered
MirrorOpen ==
  /\ client.ws # NoSocket
  /\ sockets[client.ws] = "CONNECTING"
  /\ serverConn # NoConn \/ inflight # <<>>
  /\ ClientStep(onopen([CurClient EXCEPT !.sockets[client.ws] = "OPEN"]), inflight)

\* the oldest frame in flight arrives: a message event, or the close event
MirrorDeliver ==
  /\ inflight # <<>>
  /\ client.ws # NoSocket
  /\ sockets[client.ws] = "OPEN"
  /\ IF Head(inflight) = CloseFrame
     THEN ClientStep(onclose([CurClient EXCEPT !.sockets[client.ws] = "CLOSED"]),
                     Tail(inflight))
     ELSE ClientStep(onmessage(CurClient, Head(inflight)), Tail(inflight))

\* sendReady() or sendPlayAgainVote(): what the socket transmits reaches the
\* server's 'message' listener of an open connection
MirrorSend ==
  \E name \in {"sendReady", "sendPlayAgainVote"} :
    LET cl == IF name = "sendReady" THEN sendReady(CurClient)
              ELSE sendPlayAgainVote(CurClient)
        type == IF name = "sendReady" THEN "participant_ready" ELSE "play_again_vote"
        delivered == /\ \E i \in 1..Len(cl.trace) : cl.trace[i].kind = "send"
                     /\ serverConn # NoConn
                     /\ readyState[serverConn] = OPEN
        st == handleMessage(Cur, serverConn, [wellFormed |-> TRUE, type |-> type], <<>>)
    IN /\ delivered
       /\ MirrorStep(st, cl, serverConn, inflight \o FramesTo(st.trace, serverConn))

\* the app calls disconnect(): the socket stops dispatching messages, what
\* is in flight is lost, and the server's connection object lives on
\* without a client until its own close event
MirrorDisconnect ==
  /\ client.ws # NoSocket
  /\ MirrorStep(Cur, [disconnect(CurClient, FALSE) EXCEPT !.sinceDisconnect = TRUE],
                NoConn, <<>>)

\* the close event of a socket the client has closed
MirrorCloseEvent(s) ==
  /\ sockets[s] = "CLOSING"
  /\ ClientStep(onclose([CurClient EXCEPT !.sockets[s] = "CLOSED"]), inflight)

\* wss 'connection' event for another socket
PeerConnect ==
  /\ Cardinality(Bound \ {serverConn}) < MaxPeers
  /\ LET c == FreshConn
         st == handleConnection(Cur, c)
     IN ServerStep(IF st.returned = <<>> THEN [st EXCEPT !.readyState[c] = OPEN] ELSE st,
                   serverConn, FramesTo(st.trace, serverConn))

\* what onMessage returns for a peer's app message: a message for everyone
PeerResponses == {<<[target |-> "all", message |-> [type |-> "hand_broadcast"]]>>}

\* ws 'message' event of another open connection
PeerMessage(c) ==
  /\ c \in Bound \ {serverConn}
  /\ readyState[c] = OPEN
  /\ \E type \in ClientMessageTypes \ {"player_ready"} :
       \E responses \in (IF type \in AppMessageTypes THEN PeerResponses ELSE {<<>>}) :
         LET st == handleMessage(Cur, c, [wellFormed |-> TRUE, type |-> type], responses)
         IN ServerStep(st, serverConn, FramesTo(st.trace, serverConn))

\* the transport of a connection leaves OPEN on the server's side
MirrorSocketClose(c) ==
  /\ c \in Bound
  /\ readyState[c] = OPEN
  /\ ServerStep([Cur EXCEPT !.readyState[c] = CLOSED], serverConn, <<>>)

\* ws 'close' event of a connection; the client's connection ends with a
\* close frame behind what is in flight
MirrorServerClose(c) ==
  /\ c \in Bound
  /\ readyState[c] # OPEN
  /\ LET st == [handleDisconnection(Cur, c) EXCEPT !.readyState[c] = OPEN,
                                                   !.startedTo = @ \ {c}]
     IN IF c = serverConn
        THEN ServerStep(st, NoConn, <<CloseFrame>>)
        ELSE ServerStep(st, serverConn, FramesTo(st.trace, serverConn))

\* the app calls runtime.endSession
MirrorEndSession ==
  LET st == endSession(Cur, generateParticipantId(1), 1, "completed")
  IN ServerStep(st, serverConn, FramesTo(st.trace, serverConn))

NextMirror ==
  \/ MirrorConnect
  \/ MirrorAccept
  \/ MirrorOpen
  \/ MirrorDeliver
  \/ MirrorSend
  \/ MirrorDisconnect
  \/ \E s \in Sockets : MirrorCloseEvent(s)
  \/ PeerConnect
  \/ \E c \in Conns : PeerMessage(c)
  \/ \E c \in Conns : MirrorSocketClose(c)
  \/ \E c \in Conns : MirrorServerClose(c)
  \/ MirrorEndSession

InitMirrorSpec ==
  /\ InitRuntime
  /\ tickEnabled = FALSE
  /\ parser = "parseMessage"
  /\ InitMonitor(MaxTimeoutMs, MaxCheckIntervalMs)
  /\ InitServer(HelloHandsIgnoreMessageTypes)
  /\ \E config \in {DEFAULT_CLIENT_CONFIG} : InitClient(config)

SpecMirror == InitMirrorSpec /\ [][NextMirror]_vars

\* ------------------------------------------------------------ properties
Numbers == {participants[i].value.number : i \in 1..Len(participants)}

AllReady == \A i \in 1..Len(participants) : participants[i].value.isReady

IsSend(e, type) == e.kind = "send" /\ e.msg.type = type

IsHook(e, name) == e.kind = "hook" /\ e.msg.type = name

Sent(type) == \E i \in 1..Len(trace) : IsSend(trace[i], type)

Called(name) == \E i \in 1..Len(trace) : IsHook(trace[i], name)

\* C1: after any sequence of operations and tick callbacks the number of
\* participants is 0, 1 or 2.
C1_ParticipantCount == Len(participants) \in {0, 1, 2}

\* two participants are admitted and a third connection has just been rejected
C1_Witness ==
  /\ Len(participants) = 2
  /\ lastOp.name = "handleConnection"
  /\ returned = <<>>

\* C2: handleConnection called while numbers 1 and 2 are both taken sends
\* exactly one error message to the new connection, then closes it, returns
\* null, leaves participants, bindings and phase unchanged, sends nothing to
\* the admitted connections and calls no app hook.
C2_RejectWhenFull ==
  [][(lastOp'.name = "handleConnection" /\ Numbers = {1, 2}) =>
       /\ Len(trace') = 2
       /\ IsSend(trace'[1], "error") /\ trace'[1].conn = lastOp'.conn
       /\ trace'[2].kind = "close" /\ trace'[2].conn = lastOp'.conn
       /\ \A i \in 1..Len(trace') : trace'[i].conn \notin Bound /\ trace'[i].kind # "hook"
       /\ returned' = <<>>
       /\ participants' = participants
       /\ connections' = connections
       /\ phase' = phase]_vars

\* a connection has just been rejected while a session is being played
C2_Witness ==
  /\ lastOp.name = "handleConnection"
  /\ returned = <<>>
  /\ phase = "playing"
  /\ Len(trace) = 2
  /\ IsSend(trace[1], "error")

\* C3: connection bindings and participant records are in one-to-one
\* correspondence: every bound connection maps to the id of an existing
\* participant, every participant has exactly one bound connection, and no
\* two participants share a number or an id.
C3_OneToOne ==
  /\ \A i \in 1..Len(connections) :
       \E j \in 1..Len(participants) : participants[j].value.id = connections[i].value
  /\ \A j \in 1..Len(participants) :
       Cardinality({i \in 1..Len(connections) :
                      connections[i].value = participants[j].value.id}) = 1
  /\ \A i, j \in 1..Len(connections) : i # j => connections[i].key # connections[j].key
  /\ \A i, j \in 1..Len(participants) :
       i # j => /\ participants[i].value.number # participants[j].value.number
                /\ participants[i].value.id # participants[j].value.id

\* participant 1 has left and its number was given to a later connection
C3_Witness ==
  /\ Len(participants) = 2
  /\ participants[1].value.number = 2
  /\ participants[2].value.number = 1
  /\ lastOp.name = "handleConnection"

PhaseEdges ==
  {<<"waiting", "playing">>, <<"playing", "finished">>, <<"finished", "waiting">>}

\* C4: the phase is initially waiting and every change of phase is one of
\* waiting->playing, playing->finished, finished->waiting.
C4_PhaseTransitions ==
  /\ phase = "waiting"
  /\ [][phase' # phase => <<phase, phase'>> \in PhaseEdges]_vars

\* a reset has just brought the phase back to waiting after a full round
C4_Witness ==
  /\ phase = "waiting"
  /\ Called("onReset")
  /\ lastOp.name = "handleMessage"

\* C5 as stated: phase = playing implies exactly 2 participants, all ready.
C5_PlayingImpliesTwoReady ==
  phase = "playing" => Len(participants) = 2 /\ AllReady

\* C5 amended: phase = playing implies exactly 2 participants, all ready, as
\* long as no participant has disconnected since the session started.
C5_PlayingNoDeparture ==
  (phase = "playing" /\ ~leftSinceStart) => Len(participants) = 2 /\ AllReady

\* a running session nobody has left, seen by a tick callback
C5_Witness ==
  /\ phase = "playing"
  /\ ~leftSinceStart
  /\ lastOp.name = "tick"
  /\ Called("onTick")

ReadyTypes == {"participant_ready", "player_ready"}

SenderReady(c) == MapGet(participants, MapGet(connections, c)).isReady

OtherReady(c) ==
  \A i \in 1..Len(participants) :
    participants[i].key # MapGet(connections, c) => participants[i].value.isReady

\* C6: waiting->playing happens only inside the handling of a
\* participant_ready (or its alias player_ready) or bot_identify message and
\* only when there are then two participants, both ready; with two humans
\* that are not ready the first participant_ready does not start the session
\* and the second does, and every open connection receives session_started.
C6_StartOnlyWhenBothReady ==
  [][/\ (phase = "waiting" /\ phase' = "playing") =>
          /\ lastOp'.name = "handleMessage"
          /\ lastOp'.type \in ReadyTypes \cup {"bot_identify"}
          /\ Len(participants') = 2
          /\ AllReady'
          /\ \A c \in Bound' : readyState'[c] = OPEN =>
               \E i \in 1..Len(trace') :
                 IsSend(trace'[i], "session_started") /\ trace'[i].conn = c
     /\ (/\ lastOp'.name = "handleMessage"
         /\ lastOp'.type \in ReadyTypes
         /\ lastOp'.conn \in Bound
         /\ phase = "waiting"
         /\ Len(participants) = 2
         /\ ~SenderReady(lastOp'.conn)) =>
          IF OtherReady(lastOp'.conn)
          THEN phase' = "playing"
          ELSE phase' = "waiting" /\ ~Sent("session_started")']_vars

\* the second of two humans has just sent participant_ready and both
\* connections got session_started
C6_Witness ==
  /\ phase = "playing"
  /\ lastOp.name = "handleMessage"
  /\ lastOp.type = "participant_ready"
  /\ \A i \in 1..Len(participants) : ~participants[i].value.isBot
  /\ Cardinality({trace[i].conn : i \in {j \in 1..Len(trace) :
                                            IsSend(trace[j], "session_started")}}) = 2

\* C7: at the end of every runtime operation it is never the case that
\* phase = waiting, there are 2 participants and both are ready.
C7_StartConditionEvaluated ==
  ~(phase = "waiting" /\ Len(participants) = 2 /\ AllReady)

VoteSet(ps) == {ps[i].key : i \in {j \in 1..Len(ps) : ps[j].value.wantsPlayAgain}}

\* C8: while phase # finished every participant has wantsPlayAgain = false;
\* the flag is set only by a play_again_vote received while phase = finished.
C8_VotesOnlyInFinished ==
  /\ [](phase # "finished" =>
          \A i \in 1..Len(participants) : ~participants[i].value.wantsPlayAgain)
  /\ [][VoteSet(participants') \ VoteSet(participants) # {} =>
          /\ lastOp'.name = "handleMessage"
          /\ lastOp'.type = "play_again_vote"
          /\ phase = "finished"
          /\ VoteSet(participants') \ VoteSet(participants) =
               {MapGet(connections, lastOp'.conn)}]_vars

\* the last vote has just reset the session: votes were recorded and are gone
C8_Witness ==
  /\ phase = "waiting"
  /\ lastOp.type = "play_again_vote"
  /\ Sent("play_again_status")
  /\ Sent("session_reset")
  /\ Len(participants) = 2

\* C9: onTick and checkSessionEnd are never invoked while phase # playing,
\* also for a firing that was already due when endSession ran, and a tick
\* timer is armed only while phase = playing: armed on entering playing (if
\* ticks are enabled) and disarmed on leaving it.
C9_TickOnlyWhilePlaying ==
  /\ [](tickInterval => phase = "playing")
  /\ [](\A i \in 1..Len(trace) :
          (IsHook(trace[i], "onTick") \/ IsHook(trace[i], "checkSessionEnd"))
            => trace[i].phase = "playing")
  /\ [][/\ (phase # "playing" /\ phase' = "playing") => tickInterval' = tickEnabled
        /\ (phase = "playing" /\ phase' # "playing") => ~tickInterval'
        /\ (~tickInterval /\ tickInterval') => (phase # "playing" /\ phase' = "playing")]_vars

\* a firing that was due when the session ended has run and called no hook
C9_Witness ==
  /\ lastOp.name = "tick"
  /\ phase = "finished"
  /\ trace = <<>>

\* C10: whenever session_ended is sent no tick timer is armed, and onTick is
\* not invoked after a session_ended send until session_started is sent again.
C10_LoopStoppedBeforeEnded ==
  \A i \in 1..Len(trace) :
    /\ IsSend(trace[i], "session_ended") => ~trace[i].armed
    /\ IsHook(trace[i], "onTick") => ~trace[i].ended
    /\ IsSend(trace[i], "session_ended") =>
         \A j \in i..Len(trace) : ~IsHook(trace[j], "onTick")

\* a tick callback has just ended the session through checkSessionEnd
C10_Witness ==
  /\ lastOp.name = "tick"
  /\ Called("checkSessionEnd")
  /\ Sent("session_ended")
  /\ ~tickInterval

\* the bound connections whose readyState is OPEN
OpenBound == {c \in Bound : readyState[c] = OPEN}

\* the positions of tr at which a message of this type is sent
SendIdx(tr, type) == {i \in 1..Len(tr) : IsSend(tr[i], type)}

\* C11: session_started is broadcast exactly once for each waiting->playing
\* transition and never without one: a step makes the transition iff it
\* sends session_started, and then once to every open connection.
C11_StartedOncePerTransition ==
  [][IF phase = "waiting" /\ phase' = "playing"
     THEN /\ OpenBound' # {}
          /\ {trace'[i].conn : i \in SendIdx(trace', "session_started")} = OpenBound'
          /\ \A i, j \in SendIdx(trace', "session_started") :
               i # j => trace'[i].conn # trace'[j].conn
     ELSE SendIdx(trace', "session_started") = {}]_vars

\* a bot_identify has just started a session and session_started went out
C11_Witness ==
  /\ phase = "playing"
  /\ lastOp.type = "bot_identify"
  /\ Called("onSessionStart")
  /\ Sent("session_started")

\* C12: between two consecutive session_started broadcasts, and after the
\* last one, session_ended is broadcast at most once: a step that sends
\* session_ended starts with none sent since the last session_started and
\* sends a single broadcast.
C12_EndedOncePerRound ==
  [][SendIdx(trace', "session_ended") # {} =>
       /\ ~endedSent
       /\ SendIdx(trace', "session_started") = {}
       /\ \A i, j \in SendIdx(trace', "session_ended") :
            i # j => /\ trace'[i].conn # trace'[j].conn
                     /\ trace'[i].msg = trace'[j].msg]_vars

\* endSession was called again after session_ended went out and sent nothing
C12_Witness ==
  /\ lastOp.name = "endSession"
  /\ phase = "finished"
  /\ endedSent
  /\ trace = <<>>

\* C13: endSession has an effect only when phase = playing: it sets phase =
\* finished and broadcasts one session_ended carrying the given reason,
\* winnerId and winnerNumber; in waiting or finished it changes no state and
\* sends no message, so the second of two consecutive calls does nothing.
C13_EndSessionOnlyWhilePlaying ==
  [][/\ lastOp'.name = "endSession" =>
          IF phase = "playing"
          THEN /\ phase' = "finished"
               /\ ~tickInterval'
               /\ participants' = participants
               /\ connections' = connections
               /\ readyState' = readyState
               /\ {trace'[i].conn : i \in 1..Len(trace')} = OpenBound
               /\ Len(trace') = Cardinality(OpenBound)
               /\ \A i \in 1..Len(trace') :
                    /\ trace'[i].kind = "send"
                    /\ trace'[i].msg = [type |-> "session_ended",
                                        winnerId |-> lastOp'.winnerId,
                                        winnerNumber |-> lastOp'.winnerNumber,
                                        reason |-> lastOp'.type]
          ELSE /\ trace' = <<>>
               /\ UNCHANGED <<participants, connections, phase, tickInterval,
                              readyState, tickDue, leftSinceStart, endedSent>>
     /\ (lastOp.name = "endSession" /\ lastOp'.name = "endSession") =>
          /\ trace' = <<>>
          /\ UNCHANGED <<participants, connections, phase, tickInterval,
                         readyState, tickDue, leftSinceStart, endedSent>>]_vars

\* the app has just ended a running session because a participant left
C13_Witness ==
  /\ lastOp.name = "endSession"
  /\ lastOp.type = "participant_left"
  /\ phase = "finished"
  /\ \E i \in 1..Len(trace) :
       IsSend(trace[i], "session_ended") /\ trace[i].msg.reason = "participant_left"

\* e is the send of a play_again_status that lists as many voters as there
\* are participants
IsFullStatus(e) ==
  /\ IsSend(e, "play_again_status")
  /\ Len(e.msg.votedParticipantIds) = e.msg.totalParticipants

\* C14: after a play_again_status whose votedParticipantIds has as many
\* entries as totalParticipants, the next message the server sends on any
\* connection is session_reset: nothing but the rest of that broadcast comes
\* between, and the receiving connection gets session_reset.
C14_FullStatusThenReset ==
  \A i \in 1..Len(trace) :
    IsFullStatus(trace[i]) =>
      /\ \E j \in (i + 1)..Len(trace) :
           IsSend(trace[j], "session_reset") /\ trace[j].conn = trace[i].conn
      /\ \A k \in (i + 1)..Len(trace) :
           trace[k].kind = "send" =>
             \/ IsSend(trace[k], "session_reset")
             \/ \A m \in i..k : trace[m].kind = "send" /\ trace[m].msg = trace[i].msg

\* the only participant left has voted: status 1 of 1, then session_reset
C14_Witness ==
  /\ Len(participants) = 1
  /\ phase = "waiting"
  /\ \E i \in 1..Len(trace) :
       IsFullStatus(trace[i]) /\ trace[i].msg.totalParticipants = 1
  /\ Sent("session_reset")

\* this step handles a play_again_vote of a participant that had voted before
RevoteStep ==
  /\ lastOp'.name = "handleMessage"
  /\ lastOp'.type = "play_again_vote"
  /\ lastOp'.hadVoted

\* while the phase stays finished no participant loses its vote
NoRetract ==
  (phase = "finished" /\ phase' = "finished") =>
    \A i \in 1..Len(participants), j \in 1..Len(participants') :
      (participants'[j].key = participants[i].key
         /\ participants[i].value.wantsPlayAgain)
        => participants'[j].value.wantsPlayAgain

\* C15 as stated: a voter cannot retract, and a repeated play_again_vote
\* changes no runtime state and causes no message to be sent.
C15_RevoteIsSilent ==
  [][/\ NoRetract
     /\ RevoteStep =>
          /\ trace' = <<>>
          /\ UNCHANGED <<participants, connections, phase, tickInterval,
                         readyState, leftSinceStart, endedSent>>]_vars

\* C15 amended: a voter cannot retract while the phase stays finished; a
\* repeated play_again_vote re-broadcasts play_again_status to every open
\* connection, and changes the runtime state only when every current
\* participant has voted by then, in which case it performs the reset.
C15_RevoteRebroadcasts ==
  [][/\ NoRetract
     /\ RevoteStep =>
          /\ phase = "finished"
          /\ connections' = connections
          /\ readyState' = readyState
          /\ tickInterval' = tickInterval
          /\ {trace'[i].conn : i \in SendIdx(trace', "play_again_status")} = OpenBound
          /\ IF \A i \in 1..Len(participants) : participants[i].value.wantsPlayAgain
             THEN phase' = "waiting" /\ Called("onReset")'
             ELSE /\ participants' = participants
                  /\ phase' = phase
                  /\ \A i \in 1..Len(trace') : IsSend(trace'[i], "play_again_status")]_vars

\* a participant has voted a second time while the other has not voted
C15_Witness ==
  /\ lastOp.name = "handleMessage"
  /\ lastOp.type = "play_again_vote"
  /\ lastOp.hadVoted
  /\ phase = "finished"
  /\ Len(participants) = 2
  /\ Sent("play_again_status")

\* C16: every play_again_status lists exactly the connected participants
\* whose vote is recorded up to and including the triggering vote, its
\* totalParticipants is the current number of participants, and it is sent
\* to all open connections before any session_reset caused by that vote.
C16_StatusReflectsVotes ==
  [][SendIdx(trace', "play_again_status") # {} =>
       /\ lastOp'.name = "handleMessage"
       /\ lastOp'.type = "play_again_vote"
       /\ lastOp'.conn \in Bound
       /\ {trace'[i].conn : i \in SendIdx(trace', "play_again_status")} = OpenBound
       /\ LET voters == VoteSet(participants) \cup {MapGet(connections, lastOp'.conn)}
          IN \A i \in SendIdx(trace', "play_again_status") :
               LET ids == trace'[i].msg.votedParticipantIds
               IN /\ {ids[k] : k \in 1..Len(ids)} = voters
                  /\ Len(ids) = Cardinality(voters)
                  /\ voters \subseteq {participants'[k].key : k \in 1..Len(participants')}
                  /\ trace'[i].msg.totalParticipants = Len(participants')
                  /\ \A j \in SendIdx(trace', "session_reset") : i < j]_vars

\* the first of two participants has voted: both got status 1 of 2
C16_Witness ==
  /\ phase = "finished"
  /\ Len(participants) = 2
  /\ Cardinality({trace[i].conn : i \in SendIdx(trace, "play_again_status")}) = 2
  /\ \A i \in SendIdx(trace, "play_again_status") :
       /\ Len(trace[i].msg.votedParticipantIds) = 1
       /\ trace[i].msg.totalParticipants = 2

\* the open bound connections a response with this target must reach when c
\* is the sender, in the order of the connections map
Recipients(target, c) ==
  SelectSeq(MapKeys(connections),
            LAMBDA d : /\ readyState[d] = OPEN
                       /\ CASE target = "sender" -> d = c
                            [] target = "opponent" -> d # c
                            [] OTHER -> TRUE)

\* the sends a response list must cause, as [conn, msg], in order
RECURSIVE ExpectedSends(_, _)
ExpectedSends(responses, c) ==
  IF responses = <<>> THEN <<>>
  ELSE LET to == Recipients(Head(responses).target, c)
       IN [i \in 1..Len(to) |-> [conn |-> to[i], msg |-> Head(responses).message]]
          \o ExpectedSends(Tail(responses), c)

\* the sends of a trace, as [conn, msg], in order
ActualSends(tr) ==
  LET sends == SelectSeq(tr, LAMBDA e : e.kind = "send")
  IN [i \in 1..Len(sends) |-> [conn |-> sends[i].conn, msg |-> sends[i].msg]]

C18_DisconnectionFrame ==
  [][(/\ lastOp'.name = "handleDisconnection"
      /\ lastOp'.conn \in Bound) =>
       /\ participants' = MapDelete(participants, MapGet(connections, lastOp'.conn))
       /\ connections' = MapDelete(connections, lastOp'.conn)
       /\ phase' = phase
       /\ tickInterval' = tickInterval
       /\ ActualSends(trace') =
            ExpectedSends(<<[target |-> "opponent", message |-> [type |-> "opponent_left"]]>>,
                          lastOp'.conn)
       /\ IsHook(trace'[1], "onParticipantLeave")
       /\ \A i \in 2..Len(trace') : trace'[i].kind = "send"]_vars

\* a participant has left a session in play; the other one was told and the
\* session is still in play
C18_Witness ==
  /\ lastOp.name = "handleDisconnection"
  /\ phase = "playing"
  /\ Len(participants) = 1
  /\ Len(trace) = 2
  /\ IsSend(trace[2], "opponent_left")
  /\ trace[2].conn \in Bound

\* the lowest number of {1, 2} that no current participant holds
LowestFree == CHOOSE n \in {1, 2} \ Numbers : \A m \in {1, 2} \ Numbers : n <= m

\* C19: handleConnection assigns the lowest number in {1, 2} not held by a
\* current participant, with the id generated from it, and the id and number
\* of a participant do not change while its connection stays bound.
C19_LowestFreeNumber ==
  [][/\ (lastOp'.name = "handleConnection" /\ returned' # <<>>) =>
          /\ {1, 2} \ Numbers # {}
          /\ returned'[1].number = LowestFree
          /\ returned'[1].id = generateParticipantId(LowestFree)
          /\ MapGet(connections', lastOp'.conn) = returned'[1].id
          /\ MapGet(participants', returned'[1].id) = returned'[1]
     /\ \A c \in Bound \cap Bound' :
          /\ MapGet(connections', c) = MapGet(connections, c)
          /\ MapHas(participants', MapGet(connections, c))
          /\ MapGet(participants', MapGet(connections, c)).number =
               MapGet(participants, MapGet(connections, c)).number
          /\ MapGet(participants', MapGet(connections, c)).id = MapGet(connections, c)]_vars

\* participant 1 has left and the next admitted connection became participant
\* 1 beside the participant 2 that stayed
C19_Witness ==
  /\ lastOp.name = "handleConnection"
  /\ returned # <<>>
  /\ returned[1].number = 1
  /\ Len(participants) = 2
  /\ participants[1].value.number = 2
  /\ MapGet(connections, lastOp.conn) = generateParticipantId(1)

\* C20: when the parser returns null for a message of a bound connection the
\* runtime sends error 'Invalid message format' to that connection and does
\* nothing else: no other send, no close, no hook call, and the phase, the
\* participants, the bindings and the tick loop stay as they were.
C20_InvalidMessage ==
  [][(/\ lastOp'.name = "handleMessage"
      /\ lastOp'.conn \in Bound
      /\ lastOp'.type = NoType) =>
       /\ Len(trace') = 1
       /\ trace'[1].kind = "send"
       /\ trace'[1].conn = lastOp'.conn
       /\ trace'[1].msg = [type |-> "error", message |-> "Invalid message format"]
       /\ readyState' = readyState
       /\ phase' = phase
       /\ participants' = participants
       /\ connections' = connections
       /\ tickInterval' = tickInterval]_vars

\* an unparsable message arrived during play and was answered with the error
C20_Witness ==
  /\ lastOp.name = "handleMessage"
  /\ lastOp.type = NoType
  /\ lastOp.conn \in Bound
  /\ phase = "playing"
  /\ Len(participants) = 2
  /\ Len(trace) = 1
  /\ IsSend(trace[1], "error")
  /\ readyState[lastOp.conn] = OPEN

\* C21: a message of a bound connection whose type is participant_ready,
\* bot_identify or play_again_vote is never answered with the error
\* 'Invalid message format', whatever parser the app supplied, and a
\* participant_ready or bot_identify leaves the sender ready.
C21_FrameworkBeforeParser ==
  [][(/\ lastOp'.name = "handleMessage"
      /\ lastOp'.conn \in Bound
      /\ lastOp'.type \in {"participant_ready", "bot_identify", "play_again_vote"}) =>
       /\ ~Sent("error")'
       /\ lastOp'.type \in {"participant_ready", "bot_identify"} =>
            MapGet(participants', MapGet(connections', lastOp'.conn)).isReady]_vars

\* C22: no app message (sent through broadcast, sendToParticipant or the
\* responses of onMessage) reaches a connection after the session_ended of
\* a round and before the following session_started.
C22_PostEndDropped ==
  \A i \in 1..Len(trace) :
    (trace[i].kind = "send" /\ trace[i].ended) => trace[i].msg \notin AppMessages

\* C23: an exception thrown by an app hook is caught by the runtime: the
\* operation in progress completes and returns normally (for the join hook:
\* the participant is returned and welcomed), and a participant whose join
\* hook threw still has the close handler that releases its slot.
C23_HookExceptionCaught ==
  /\ "threw" \in DOMAIN lastOp => (returned # <<>> /\ Sent("welcome"))
  /\ \A c \in Bound : c \notin unhandled

\* C24: the inactivity monitor invokes its shutdown callback at most once,
\* and the firing stops the monitor: afterwards the interval is cleared.
C24_ShutdownAtMostOnce ==
  /\ Len(shutdowns) <= 1
  /\ shutdowns # <<>> => ~checkInterval

\* the callback has fired, a further interval has passed and activity has
\* been recorded since
C24_Witness ==
  /\ Len(shutdowns) = 1
  /\ now >= shutdowns[1].at + checkIntervalMs
  /\ lastActivityTime > shutdowns[1].at
  /\ connectionCount > 0

\* C25: the shutdown callback is invoked only by a periodic check at which
\* one of the three conditions holds; so never less than timeoutMs after
\* start and, once someone has connected, never less than timeoutMs after
\* the last recordActivity or recordConnection.
C25_ShutdownOnlyWhenDue ==
  [][shutdowns' # shutdowns =>
       /\ checkInterval /\ now = nextCheckAt /\ now' = now
       /\ shutdowns' = Append(shutdowns, shutdowns'[Len(shutdowns')])
       /\ shutdowns'[Len(shutdowns')].at = now
       /\ \/ ~hasEverConnected /\ now - startTime >= timeoutMs
          \/ hasEverConnected /\ connectionCount = 0 /\ now - lastActivityTime >= timeoutMs
          \/ connectionCount > 0 /\ now - lastActivityTime >= timeoutMs
       /\ now - startTime >= timeoutMs
       /\ hasEverConnected => now - lastActivityTime >= timeoutMs]_vars

\* the idle shutdown of a connected monitor whose activity had postponed it
\* past the start timeout
C25_Witness ==
  /\ Len(shutdowns) = 1
  /\ shutdowns[1].reason = Idle
  /\ shutdowns[1].at > startTime + timeoutMs
  /\ shutdowns[1].at = now
  /\ now - lastActivityTime >= timeoutMs

\* the time after which nothing was recorded
LastRecorded == IF hasEverConnected THEN lastActivityTime ELSE startTime

\* the reason of the case the monitor is in
DueReason ==
  IF ~hasEverConnected THEN ColdStart
  ELSE IF connectionCount = 0 THEN Emptied ELSE Idle

\* C26: a monitor that is not stopped fires within [t0 + T, t0 + T + C] of
\* the time t0 after which nothing was recorded: while its interval is live
\* the clock is not past t0 + T + C, a check at or after t0 + T fires, and
\* the firing has the reason of the case.
C26_ShutdownInWindow ==
  /\ [](checkInterval => now <= LastRecorded + timeoutMs + checkIntervalMs)
  /\ [][(checkInterval /\ nextCheckAt' # nextCheckAt) =>
          IF now >= LastRecorded + timeoutMs
          THEN /\ shutdowns' = Append(shutdowns, [reason |-> DueReason, at |-> now])
               /\ now <= LastRecorded + timeoutMs + checkIntervalMs
          ELSE shutdowns' = shutdowns]_vars

\* everyone left, and the shutdown came at a check after the lower end of
\* the window
C26_Witness ==
  /\ Len(shutdowns) = 1
  /\ shutdowns[1].reason = Emptied
  /\ shutdowns[1].at = now
  /\ now > lastActivityTime + timeoutMs
  /\ now <= lastActivityTime + timeoutMs + checkIntervalMs
  /\ ~stopCalled

\* C27: stop() is idempotent, and after a stop() the shutdown callback is
\* never invoked and the interval stays cleared.
C27_NoShutdownAfterStop ==
  /\ [](stopCalled => monitorStop(Monitor) = Monitor)
  /\ [][stopCalled => (shutdowns' = shutdowns /\ ~checkInterval')]_vars

\* the monitor was stopped before it fired, connections were recorded and a
\* whole window has gone by
C27_Witness ==
  /\ stopCalled
  /\ shutdowns = <<>>
  /\ connectionCount > 0
  /\ lastActivityTime > startTime
  /\ now > lastActivityTime + timeoutMs + checkIntervalMs

\* C28: an inbound frame refreshes lastActivityTime unless its type is in
\* the configured ignoreMessageTypes, in which case lastActivityTime is
\* left unchanged; either way the frame is forwarded to handleMessage, and
\* the monitor's connection count is not touched.
C28_IgnoredTypesAreNoActivity ==
  [][(lastOp'.name = "handleMessage" /\ now' = now) =>
       /\ lastActivityTime' = IF lastOp'.type \in ignoreMessageTypes
                              THEN lastActivityTime ELSE now
       /\ connectionCount' = connectionCount
       /\ \E rawData \in RawFrames :
            /\ rawData.type = lastOp'.type
            /\ LET st == handleMessage(Cur, lastOp'.conn, rawData, lastOp'.responses)
               IN /\ trace' = st.trace
                  /\ participants' = st.participants
                  /\ phase' = st.phase]_vars

\* a frame of an ignored type has arrived after the last activity: it was
\* handled by the runtime and the app, and the last activity is still in
\* the past
C28_Witness ==
  /\ lastOp.name = "handleMessage"
  /\ lastOp.type \in ignoreMessageTypes
  /\ lastActivityTime < now
  /\ Called("onMessage")
  /\ Sent("hand_broadcast")
  /\ shutdowns = <<>>

\* the graceful sequence
GracefulSequence == <<"inactivityMonitor.stop", "runtime.stop", "wss.close">>

\* C29: however many shutdown requests arrive (signals, stop() calls, the
\* inactivity callback), the steps executed are: stop the monitor, stop the
\* runtime, close the listening socket, in that order and each once; they
\* are executed as soon as the first request has arrived.
C29_GracefulSequenceOnce ==
  /\ shutdownSteps \in {<<>>, GracefulSequence}
  /\ (lastOp.name \in {"handleSignal", "server.stop"} \/ shutdowns # <<>>) =>
       /\ shutdownSteps = GracefulSequence
       /\ ~checkInterval
       /\ ~tickInterval

\* a signal has arrived after the inactivity callback had already started
\* the shutdown
C29_Witness ==
  /\ shutdowns # <<>>
  /\ lastOp.name = "handleSignal"
  /\ shutdownSteps = GracefulSequence
  /\ isShuttingDown

\* C30: process.exit is never called before the close callback of the
\* listening socket has run.
C30_ExitAfterClose == exited => closeCallbackRan

\* C35: the reset is performed by the play_again_vote that completes the
\* votes in finished, in this order: onReset is called (phase still
\* finished), the flags are reset (wantsPlayAgain false, isReady = isBot),
\* the phase becomes waiting, session_reset is broadcast (phase already
\* waiting); afterwards bots are ready and humans are not.
C35_ResetOrder ==
  [][SendIdx(trace', "session_reset") # {} =>
       /\ lastOp'.name = "handleMessage"
       /\ lastOp'.type = "play_again_vote"
       /\ phase = "finished"
       /\ VoteSet(participants) \cup {MapGet(connections, lastOp'.conn)}
            = {participants[i].key : i \in 1..Len(participants)}
       /\ \E h \in 1..Len(trace') :
            /\ IsHook(trace'[h], "onReset")
            /\ trace'[h].phase = "finished"
            /\ \A j \in SendIdx(trace', "session_reset") : h < j
       /\ \A j \in SendIdx(trace', "session_reset") : trace'[j].phase = "waiting"
       /\ SendIdx(trace', "session_reset") =
            {j \in 1..Len(trace') : j > Len(trace') - Cardinality(OpenBound)}
       /\ phase' = "waiting"
       /\ \A i \in 1..Len(participants') :
            /\ ~participants'[i].value.wantsPlayAgain
            /\ participants'[i].value.isReady = participants'[i].value.isBot]_vars

\* a bot and a human have been reset: the bot is ready, the human is not
C35_Witness ==
  /\ lastOp.name = "handleMessage"
  /\ lastOp.type = "play_again_vote"
  /\ Sent("session_reset")
  /\ Called("onReset")
  /\ phase = "waiting"
  /\ Len(participants) = 2
  /\ \E i, j \in 1..2 :
       /\ participants[i].value.isBot /\ participants[i].value.isReady
       /\ ~participants[j].value.isBot /\ ~participants[j].value.isReady

\* C36 as stated: on every connection the session_started of the round is
\* sent before any message emitted by onTick in that round.
C36_StartedOnEveryConnection ==
  \A i \in 1..Len(trace) : IsSend(trace[i], "app_tick") => trace[i].started

\* C36: the session_started broadcast of a round precedes every message
\* emitted by onTick in that round: an onTick message is sent only by the
\* interval callback, with phase = playing and no session_ended since the
\* last session_started; the tick loop is not yet started while
\* session_started is being broadcast, and the operation that broadcasts it
\* sends no onTick message.  A connection that gets an onTick message
\* without having been sent the session_started of the round was admitted
\* after a participant had left the round.
C36_StartedBeforeTicks ==
  \A i \in 1..Len(trace) :
    /\ IsSend(trace[i], "app_tick") =>
         /\ lastOp.name = "tick"
         /\ trace[i].phase = "playing"
         /\ ~trace[i].ended
         /\ \E h \in 1..(i - 1) : IsHook(trace[h], "onTick")
         /\ ~trace[i].started => leftSinceStart
    /\ IsSend(trace[i], "session_started") =>
         /\ ~trace[i].armed
         /\ trace[i].phase = "playing"
         /\ \A j \in 1..Len(trace) : ~IsSend(trace[j], "app_tick")

\* a tick of a running session has sent a message to both participants, one
\* that was sent session_started and a replacement that was not
C36_Witness ==
  /\ lastOp.name = "tick"
  /\ phase = "playing"
  /\ Cardinality(SendIdx(trace, "app_tick")) = 2
  /\ Cardinality(OpenBound) = 2
  /\ tickInterval
  /\ \E i, j \in SendIdx(trace, "app_tick") : trace[i].started /\ ~trace[j].started

\* C37: in the hello-hands server a hand_update frame is ignored for
\* inactivity tracking: it leaves lastActivityTime unchanged.
C37_HandUpdateIgnored ==
  [][(/\ ignoreMessageTypes = HelloHandsIgnoreMessageTypes
      /\ lastOp'.name = "handleMessage"
      /\ lastOp'.type = "hand_update"
      /\ now' = now) => lastActivityTime' = lastActivityTime]_vars

\* the participants that are bots
Bots == {i \in 1..Len(participants) : participants[i].value.isBot}

\* C38: every participant with isBot also has isReady, in every reachable
\* state; and a participant_ready sent in waiting by one of two participants
\* whose opponent is a bot starts the session.
C38_BotsAreReady ==
  /\ [](\A i \in Bots : participants[i].value.isReady)
  /\ [][(/\ lastOp'.name = "handleMessage"
         /\ lastOp'.type = "participant_ready"
         /\ phase = "waiting"
         /\ Len(participants) = 2
         /\ MapHas(connections, lastOp'.conn)
         /\ \E i \in Bots : participants[i].key # MapGet(connections, lastOp'.conn))
        => /\ phase' = "playing"
           /\ SendIdx(trace', "session_started") # {}]_vars

\* a human's participant_ready has started a session with a bot
C38_Witness ==
  /\ lastOp.name = "handleMessage"
  /\ lastOp.type = "participant_ready"
  /\ phase = "playing"
  /\ Sent("session_started")
  /\ Cardinality(Bots) = 1
  /\ \E i \in 1..Len(participants) :
       /\ participants[i].key = MapGet(connections, lastOp.conn)
       /\ ~participants[i].value.isBot

\* C39: at the end of every runtime operation it is never the case that
\* the phase is finished, at least one participant is connected and every
\* connected participant has wantsPlayAgain set.
C39_ResetWhenAllVoted ==
  ~(/\ phase = "finished"
    /\ Len(participants) >= 1
    /\ \A i \in 1..Len(participants) : participants[i].value.wantsPlayAgain)

\* the operations of the client that send a message
SendOps == {"sendReady", "sendPlayAgainVote", "sendAppMessage"}

\* the positions of tr at which a message is handed to a socket
Transmissions(tr) == {i \in 1..Len(tr) : tr[i].kind = "send"}

\* C31: sendReady, sendPlayAgainVote and sendAppMessage hand their message
\* to the socket, once, iff the client's socket is open at the time of the
\* call; otherwise nothing is transmitted; either way the client, its
\* sockets and its timers are unchanged.  No other operation (an open event,
\* a reconnect, a connect) transmits anything, so a dropped message is never
\* sent later.
C31_SendOnlyWhenOpen ==
  [][IF clientOp'.name \in SendOps
     THEN /\ IF client.ws # NoSocket /\ sockets[client.ws] = "OPEN"
             THEN /\ Len(clientTrace') = 1
                  /\ clientTrace'[1].kind = "send"
                  /\ clientTrace'[1].name = clientOp'.type
                  /\ clientTrace'[1].socket = client.ws
             ELSE Transmissions(clientTrace') = {}
          /\ client' = client
          /\ sockets' = sockets
          /\ timers' = timers
     ELSE Transmissions(clientTrace') = {}]_vars

\* a message has been dropped while the client's socket was still connecting
C31_Witness ==
  /\ clientOp.name \in SendOps
  /\ Len(clientTrace) = 1
  /\ clientTrace[1].kind = "warn"
  /\ client.ws # NoSocket
  /\ sockets[client.ws] = "CONNECTING"

\* the positions of tr at which setTimeout is called
Scheduled(tr) == {i \in 1..Len(tr) : tr[i].kind = "setTimeout"}

\* this step handles a close event while the limit allows another attempt:
\* the event of a socket that was closed by the peer, by a failure or by an
\* earlier close(), or the event a socket dispatches from within the close()
\* of disconnect(), which has reset the counter before
ClosedBelowLimit ==
  \/ /\ clientOp'.name = "onclose"
     /\ client.reconnectAttempts < clientConfig.maxReconnectAttempts
  \/ /\ clientOp'.name = "disconnect"
     /\ clientOp'.type = "sync"
     /\ client.ws # NoSocket
     /\ sockets[client.ws] \in {"CONNECTING", "OPEN"}
     /\ 0 < clientConfig.maxReconnectAttempts

\* what C32 says of every configuration: without autoReconnect no timer is
\* ever created; a close event schedules at most one reconnect, with delay
\* reconnectDelayMs, and only close events schedule one; sockets are created
\* only by connect() and by the timer callback; an open event resets the
\* attempt counter to 0
ReconnectPolicy ==
  /\ [](~clientConfig.autoReconnect =>
          timersCreated = 0 /\ client.reconnectTimeout = NoTimer)
  /\ [][ /\ Cardinality(Scheduled(clientTrace')) =
            (IF /\ ClosedBelowLimit
                /\ clientConfig.autoReconnect
                /\ client.lastUrl # Null
             THEN 1 ELSE 0)
         /\ \A i \in Scheduled(clientTrace') :
              clientTrace'[i].name = ToString(clientConfig.reconnectDelayMs)
         /\ timersCreated' = timersCreated + Cardinality(Scheduled(clientTrace'))
         /\ ((\E i \in 1..Len(clientTrace') : clientTrace'[i].kind = "new WebSocket")
              => clientOp'.name \in {"connect", "reconnectCallback"})
         /\ (clientOp'.name = "onopen" => client'.reconnectAttempts = 0)]_vars

\* C32 as stated: the number of reconnects scheduled since the last
\* successful open never exceeds maxReconnectAttempts.
C32_AttemptsSinceOpenBounded ==
  /\ ReconnectPolicy
  /\ [](scheduledSinceOpen <= clientConfig.maxReconnectAttempts)

\* C32: with autoReconnect disabled no reconnect is ever scheduled; with it
\* enabled every close event schedules at most one reconnect, after
\* reconnectDelayMs, and the attempt counter, which an open event and
\* disconnect() reset to 0, never exceeds maxReconnectAttempts; the
\* reconnects scheduled since the last open exceed it only after a
\* disconnect().
C32_ReconnectBounded ==
  /\ ReconnectPolicy
  /\ [](client.reconnectAttempts <= clientConfig.maxReconnectAttempts)
  /\ [][ /\ (client'.reconnectAttempts < client.reconnectAttempts
             => clientOp'.name \in {"onopen", "disconnect"})
         /\ (client'.reconnectAttempts > client.reconnectAttempts
             => /\ client'.reconnectAttempts = client.reconnectAttempts + 1
                /\ clientOp'.name = "onclose"
                /\ Scheduled(clientTrace') # {})]_vars

\* the limit is reached: a close event has found the counter at
\* maxReconnectAttempts and has scheduled nothing
C32_Witness ==
  /\ clientConfig.autoReconnect
  /\ clientOp.name = "onclose"
  /\ client.reconnectAttempts = clientConfig.maxReconnectAttempts
  /\ Scheduled(clientTrace) = {}
  /\ \E i \in 1..Len(clientTrace) : clientTrace[i].kind = "warn"
  /\ timers = {}

\* C33: from the return of disconnect() until the next call of connect()
\* the connection state is disconnected, the phase is waiting, participant
\* id and number are null, no reconnect is pending and no socket is created.
C33_StaysDisconnected ==
  /\ [](sinceDisconnect =>
          /\ client.connectionState = "disconnected"
          /\ client.sessionPhase = "waiting"
          /\ client.participantId = Null
          /\ client.participantNumber = NoNumber
          /\ timers = {})
  /\ [][(sinceDisconnect /\ clientOp'.name # "connect") =>
          \A i \in 1..Len(clientTrace') : clientTrace'[i].kind # "new WebSocket"]_vars

\* the handler the claim names for each framework type
HandlerOf(type) ==
  CASE type = "welcome" -> "onSessionJoin"
    [] type = "opponent_joined" -> "onOpponentJoined"
    [] type = "opponent_left" -> "onOpponentLeft"
    [] type \in {"session_started", "game_started"} -> "onSessionStart"
    [] type \in {"session_ended", "game_over"} -> "onSessionEnd"
    [] type = "play_again_status" -> "onPlayAgainStatus"
    [] type \in {"session_reset", "game_reset"} -> "onSessionReset"
    [] type = "error" -> "onError"

\* the phase the client has after a framework message other than welcome
PhaseAfter(type, old) ==
  CASE type \in {"session_started", "game_started"} -> "playing"
    [] type \in {"session_ended", "game_over"} -> "finished"
    [] type \in {"session_reset", "game_reset"} -> "waiting"
    [] OTHER -> old

\* the one handler call of the step: this handler, seeing the client as it
\* is after the step
OneHandlerCall(name) ==
  /\ Len(clientTrace') = 1
  /\ clientTrace'[1].kind = "handler"
  /\ clientTrace'[1].name = name
  /\ clientTrace'[1].sessionPhase = client'.sessionPhase
  /\ clientTrace'[1].participantId = client'.participantId
  /\ clientTrace'[1].participantNumber = client'.participantNumber

\* C34: a message of a framework type (legacy aliases included) updates the
\* client first and then calls its handler, which sees the new phase (and,
\* for welcome, the latched participant id, number and phase); onAppMessage
\* is not called.  A message of any other type calls onAppMessage only and
\* changes nothing.  Data that does not parse calls no handler.
C34_Demultiplex ==
  [][clientOp'.name = "onmessage" =>
       /\ sockets' = sockets /\ timers' = timers
       /\ IF clientOp'.type = "welcome"
          THEN /\ OneHandlerCall("onSessionJoin")
               /\ \E data \in ServerFrames :
                    /\ data.type = "welcome"
                    /\ client' =
                         [client EXCEPT
                            !.participantId =
                               IF data.participantId # NoType
                               THEN data.participantId ELSE data.playerId,
                            !.participantNumber =
                               IF data.participantNumber # NoNumber
                               THEN data.participantNumber ELSE data.playerNumber,
                            !.sessionPhase =
                               IF data.sessionPhase # NoType THEN data.sessionPhase
                               ELSE IF data.gamePhase # NoType THEN data.gamePhase
                               ELSE "waiting"]
          ELSE IF clientOp'.type \in FRAMEWORK_MESSAGE_TYPES
          THEN /\ OneHandlerCall(HandlerOf(clientOp'.type))
               /\ client' = [client EXCEPT !.sessionPhase =
                                              PhaseAfter(clientOp'.type, @)]
          ELSE /\ client' = client
               /\ \/ OneHandlerCall("onAppMessage")
                  \/ /\ clientOp'.type = NoType
                     /\ Len(clientTrace') = 1
                     /\ clientTrace'[1].kind = "error"]_vars

\* session_ended has arrived on a client that was playing: onSessionEnd has
\* seen phase finished
C34_Witness ==
  /\ clientOp.name = "onmessage"
  /\ clientOp.type = "session_ended"
  /\ Len(clientTrace) = 1
  /\ clientTrace[1].name = "onSessionEnd"
  /\ clientTrace[1].sessionPhase = "finished"
  /\ client.sessionPhase = "finished"
  /\ client.participantId # Null

\* the client's socket and the server's connection object for it are both
\* open, and the client has processed everything the server has sent on it
ClientUpToDate ==
  /\ serverConn # NoConn
  /\ MapHas(connections, serverConn)
  /\ readyState[serverConn] = OPEN
  /\ client.ws # NoSocket
  /\ sockets[client.ws] = "OPEN"
  /\ inflight = <<>>

\* C40: whenever the client has processed every message the server has sent
\* on its connection since the welcome, getSessionPhase() equals the
\* runtime's phase and the client's participant id and number are those of
\* the participant bound to the connection on the server.
C40_ClientMirrorsServer ==
  ClientUpToDate =>
    /\ client.sessionPhase = phase
    /\ client.participantId = MapGet(connections, serverConn)
    /\ MapHas(participants, client.participantId)
    /\ client.participantNumber = MapGet(participants, client.participantId).number

\* the client has followed a session to its end on its second connection,
\* next to an opponent
C40_Witness ==
  /\ ClientUpToDate
  /\ phase = "finished"
  /\ client.sessionPhase = "finished"
  /\ Len(participants) = 2
  /\ sockets[1] = "CLOSED"

====
